---------------------------- MODULE Spec2Model ----------------------------
(***************************************************************************)
(* A model of the OUTCAR parser of for_VASP6_vasp_outcar_parsers.py: the   *)
(* chunk segmentation (build_header, build_chunk, outcarchunks), the       *)
(* header builder (OutcarHeaderParser and the header property parsers),    *)
(* the chunk builder (OutcarChunkParser and the chunk property parsers)    *)
(* and the stress conversion.                                              *)
(*                                                                         *)
(* Representation.  A line of the log is a record [d, parts]: d is the     *)
(* delimiter substring the line contains ("" when it contains none of the  *)
(* delimiters the parser looks for) and parts is line.split(), a sequence  *)
(* of tokens.  A token is a sequence of one-character strings, so that     *)
(* int()/float(), split('_') and isalpha() are computed and not assumed.   *)
(* A Python dict is a function from its keys; a Python call that may raise *)
(* returns a record whose field exc names the exception class ("" when it  *)
(* returned normally).  Sequences are 1-based: Python's lines[c] is        *)
(* lines[c + 1] here, and a cursor of this model is the Python cursor + 1. *)
(***************************************************************************)
EXTENDS Integers, Sequences, FiniteSets, TLC

VARIABLES
    fd,        \* outcarchunks: the lines of the open stream
    pos,       \* outcarchunks: how many lines of fd have been consumed
    pc,        \* outcarchunks: where the generator stands
    header,    \* the header dict (outcarchunks' local, OUTCARChunk.header)
    yielded,   \* the chunks (their lines) handed to the caller so far
    outcome,   \* what the caller's last next() on the generator gave
    species,   \* SpeciesTypes._species of the header parser instance
    lines,     \* the lines given to a builder (header lines or chunk lines)
    result,    \* what the last build/conversion returned or raised
    warnings,  \* number of warn() calls made so far
    stress,    \* the argument of convert_vasp_outcar_stress
    raw,       \* the argument of _check_line: the characters of a line
    callers,   \* for each caller of outcarchunks, its generator and its chunks
    instances, \* the parser instances made by make_parsers so far
    registry,  \* the parser names held by default_header_parsers and
               \* default_chunk_parsers
    dict_INCAR,    \* incar.py: the entries of the INCAR file being prepared
    dict_Analysis  \* incar.py: the analysis settings of the workflow

vars == <<fd, pos, pc, header, yielded, outcome, species, lines, result,
          warnings, stress, raw, callers, instances, registry, dict_INCAR,
          dict_Analysis>>

---------------------------------------------------------------------------
(* Python values *)

\* A dict.update that keeps the value of a key the dict already has
DictUpdate_keep(d, e) ==
    [k \in (DOMAIN d) \cup (DOMAIN e) |-> IF k \in DOMAIN d THEN d[k] ELSE e[k]]

\* A dict update: properties.update(prop)
DictUpdate(d, e) ==
    [k \in (DOMAIN d) \cup (DOMAIN e) |-> IF k \in DOMAIN e THEN e[k] ELSE d[k]]

\* dict.pop(key) on a dict that has the key: the dict without it
DictPop(d, key) == [k \in (DOMAIN d) \ {key} |-> d[k]]

EmptyDict == [k \in {} |-> 0]

\* Python's None, and an optional value that is present: None is the empty
\* sequence, so that it can be compared with the sequences it stands in for
None == <<>>
Some(v) == <<v>>

\* A call that returned val / a call that raised an exception of class e
Return(val) == [exc |-> "", val |-> val]
Raise(e, msg) == [exc |-> e, val |-> msg]

\* seq[i:] of Python with i a 0-based index, 0 <= i
SliceFrom(seq, i) == IF i >= Len(seq) THEN <<>> ELSE SubSeq(seq, i + 1, Len(seq))

\* seq[:n] of Python, 0 <= n
SliceTo(seq, n) == IF n >= Len(seq) THEN seq ELSE SubSeq(seq, 1, n)

Digits == {"0", "1", "2", "3", "4", "5", "6", "7", "8", "9"}

DigitVal(c) ==
    CASE c = "0" -> 0 [] c = "1" -> 1 [] c = "2" -> 2 [] c = "3" -> 3
      [] c = "4" -> 4 [] c = "5" -> 5 [] c = "6" -> 6 [] c = "7" -> 7
      [] c = "8" -> 8 [] c = "9" -> 9

RECURSIVE DigitsVal(_)
DigitsVal(tok) ==
    IF tok = <<>> THEN 0
    ELSE 10 * DigitsVal(SubSeq(tok, 1, Len(tok) - 1)) + DigitVal(tok[Len(tok)])

AllDigits(tok) == tok # <<>> /\ \A i \in 1..Len(tok) : tok[i] \in Digits

\* int(tok) and float(tok) on the tokens of this model (an optional '-' and
\* decimal digits; every other token is rejected with ValueError)
ParseNumber(tok) ==
    IF AllDigits(tok) THEN Return(DigitsVal(tok))
    ELSE IF tok # <<>> /\ tok[1] = "-" /\ AllDigits(Tail(tok))
         THEN Return(0 - DigitsVal(Tail(tok)))
         ELSE Raise("ValueError", "could not convert string")

\* list(map(float, toks)): the values, or the first ValueError
RECURSIVE MapNumber(_)
MapNumber(toks) ==
    IF toks = <<>> THEN Return(<<>>)
    ELSE LET h == ParseNumber(Head(toks)) IN
         IF h.exc # "" THEN h
         ELSE LET t == MapNumber(Tail(toks)) IN
              IF t.exc # "" THEN t ELSE Return(<<h.val>> \o t.val)

\* row[:] = values of numpy for a row of three: three values are stored as
\* they are, one value is broadcast, any other number is a ValueError
AssignRow3(values) ==
    IF Len(values) = 3 THEN Return(values)
    ELSE IF Len(values) = 1 THEN Return(<<values[1], values[1], values[1]>>)
    ELSE Raise("ValueError", "could not broadcast input array")

\* delim in line
Contains(delim, line) == line.d = delim

---------------------------------------------------------------------------
(* Delimiters *)

OUTCAR_SCF_DELIM == "FREE ENERGIE OF THE ION-ELECTRON SYSTEM"
HEADER_END_DELIM == "Iteration"

---------------------------------------------------------------------------
(* Chunk segmentation *)

\* build_header: the lines read up to and including the first one that
\* contains 'Iteration', and the new stream position; ParseError when the
\* stream ends first (the for loop has then consumed the whole stream).
RECURSIVE build_header_loop(_, _, _)
build_header_loop(f, p, acc) ==
    IF p >= Len(f)
    THEN [exc |-> "ParseError", val |-> "Incomplete OUTCAR", pos |-> p]
    ELSE LET line == f[p + 1] IN
         IF Contains(HEADER_END_DELIM, line)
         THEN [exc |-> "", val |-> Append(acc, line), pos |-> p + 1]
         ELSE build_header_loop(f, p + 1, Append(acc, line))

\* A build_header that takes the end of the stream for the end of the header
build_header_noraise(f, p) ==
    LET r == build_header_loop(f, p, <<>>) IN
    IF r.exc # "" THEN [exc |-> "", val |-> SliceFrom(f, p), pos |-> Len(f)] ELSE r

\* A build_header that leaves the line with the marker in the stream
build_header_exclusive(f, p) ==
    LET r == build_header_loop(f, p, <<>>) IN
    IF r.exc # "" THEN r
    ELSE [exc |-> "", val |-> SliceTo(r.val, Len(r.val) - 1), pos |-> r.pos - 1]

build_header(f, p) == build_header_loop(f, p, <<>>)

\* range(3) for range(4)
EnergyTailLines_three == 4 - 1

\* The four lines appended after the line with the SCF delimiter
EnergyTailLines == 4

\* for _ in range(n): lines.append(next(fd))
RECURSIVE build_chunk_tail(_, _, _, _)
build_chunk_tail(f, p, acc, n) ==
    IF n = 0 THEN [exc |-> "", val |-> acc, pos |-> p]
    ELSE IF p >= Len(f)
         THEN [exc |-> "StopIteration", val |-> <<>>, pos |-> p]
         ELSE build_chunk_tail(f, p + 1, Append(acc, f[p + 1]), n - 1)

\* build_chunk: the lines read up to the first one that contains the SCF
\* delimiter and four more; StopIteration (from next(fd)) when the stream
\* ends first.
RECURSIVE build_chunk_loop(_, _, _)
build_chunk_loop(f, p, acc) ==
    IF p >= Len(f)
    THEN [exc |-> "StopIteration", val |-> <<>>, pos |-> p]
    ELSE LET line == f[p + 1] IN
         IF Contains(OUTCAR_SCF_DELIM, line)
         THEN build_chunk_tail(f, p + 1, Append(acc, line), EnergyTailLines)
         ELSE build_chunk_loop(f, p + 1, Append(acc, line))

\* A build_chunk that returns what it has collected when the stream ends
build_chunk_partial(f, p) ==
    LET r == build_chunk_loop(f, p, <<>>) IN
    IF r.exc # "" /\ p < Len(f)
    THEN [exc |-> "", val |-> SliceFrom(f, p), pos |-> Len(f)]
    ELSE r

build_chunk(f, p) == build_chunk_loop(f, p, <<>>)

---------------------------------------------------------------------------
(* Tokens and characters *)

Letters ==
    {"a", "b", "c", "d", "e", "f", "g", "h", "i", "j", "k", "l", "m", "n", "o",
     "p", "q", "r", "s", "t", "u", "v", "w", "x", "y", "z",
     "A", "B", "C", "D", "E", "F", "G", "H", "I", "J", "K", "L", "M", "N", "O",
     "P", "Q", "R", "S", "T", "U", "V", "W", "X", "Y", "Z"}

\* str.isalpha() of one character
isalpha(c) == c \in Letters

\* A split that keeps the tags after the '_'
SplitUnderscoreFirst_whole(tok) == tok

\* tok.split('_')[0]: the characters before the first '_'
RECURSIVE SplitUnderscoreFirst(_)
SplitUnderscoreFirst(tok) ==
    IF tok = <<>> \/ Head(tok) = "_" THEN <<>>
    ELSE <<Head(tok)>> \o SplitUnderscoreFirst(Tail(tok))

\* ''.join([s for s in tok if s.isalpha()])
OnlyAlpha(tok) == SelectSeq(tok, isalpha)

\* The keys of ase.data.atomic_numbers that the model's logs use
atomic_numbers == {<<"X">>, <<"H">>, <<"Y">>, <<"F", "e">>, <<"N", "i">>}

\* '1/r potential' in line: the two words next to each other
AE_1 == <<"1", "/", "r">>
AE_2 == <<"p", "o", "t", "e", "n", "t", "i", "a", "l">>
HasAEMarker(line) ==
    \E i \in 1..(Len(line.parts) - 1) :
        line.parts[i] = AE_1 /\ line.parts[i + 1] = AE_2

---------------------------------------------------------------------------
(* Header property parsers.  parse returns [exc, val, species]: the dict  *)
(* of parsed properties (or the exception), and SpeciesTypes._species     *)
(* after the call.                                                         *)

\* A get_species that rounds the split point down
get_species_floor(acc) == SliceTo(acc, Len(acc) \div 2)

\* SpeciesTypes.get_species: the first half of the accumulated list,
\* rounding up: idx = sum(divmod(len, 2))
get_species(acc) ==
    LET idx == (Len(acc) \div 2) + (Len(acc) % 2) IN SliceTo(acc, idx)

SpeciesTypes_parse(c, ls, acc) ==
    LET line == ls[c]
        parts == line.parts
        idx == IF HasAEMarker(line) THEN 1 ELSE 2
    IN  IF idx >= Len(parts)
        THEN [exc |-> "IndexError", val |-> "list index out of range", species |-> acc]
        ELSE LET sym == OnlyAlpha(SplitUnderscoreFirst(parts[idx + 1])) IN
             IF sym \notin atomic_numbers
             THEN [exc |-> "ParseError", val |-> "Found an unexpected symbol",
                   species |-> acc]
             ELSE LET acc2 == Append(acc, sym) IN
                  [exc |-> "", val |-> [species |-> get_species(acc2)],
                   species |-> acc2]

IonsPerSpecies_parse(c, ls, acc) ==
    LET r == MapNumber(SliceFrom(ls[c].parts, 4)) IN
    IF r.exc # "" THEN [exc |-> r.exc, val |-> r.val, species |-> acc]
    ELSE [exc |-> "", val |-> [ion_types |-> r.val], species |-> acc]

Spinpol_parse(c, ls, acc) ==
    LET parts == ls[c].parts IN
    IF Len(parts) < 3
    THEN [exc |-> "IndexError", val |-> "list index out of range", species |-> acc]
    ELSE LET r == ParseNumber(parts[3]) IN
         IF r.exc # "" THEN [exc |-> r.exc, val |-> r.val, species |-> acc]
         ELSE [exc |-> "", val |-> [spinpol |-> (r.val = 2)], species |-> acc]

KPTS_DELIM2 == "k-points in reciprocal lattice and weights"

\* The rows lines[first], ..., of the k-point table: for nk in range(nkpts)
RECURSIVE KpointRows(_, _, _, _, _)
KpointRows(ls, row, n, ibz, wts) ==
    IF n = 0 THEN Return([ibzkpts |-> ibz, kpt_weights |-> wts])
    ELSE IF row > Len(ls) THEN Raise("IndexError", "list index out of range")
    ELSE LET parts == ls[row].parts
             floats == MapNumber(SliceTo(parts, 3))
         IN  IF floats.exc # "" THEN floats
             ELSE LET xyz == AssignRow3(floats.val) IN
                  IF xyz.exc # "" THEN xyz
                  ELSE LET w == ParseNumber(parts[Len(parts)]) IN
                       IF w.exc # "" THEN w
                       ELSE KpointRows(ls, row + 1, n - 1,
                                       Append(ibz, xyz.val), Append(wts, w.val))

\* for offset, line in enumerate(lines[cursor:]): the first line from the
\* cursor on that contains the second delimiter, 0 when there is none
RECURSIVE FindDelim2(_, _)
FindDelim2(ls, i) ==
    IF i > Len(ls) THEN 0
    ELSE IF Contains(KPTS_DELIM2, ls[i]) THEN i ELSE FindDelim2(ls, i + 1)

KpointHeader_parse(c, ls, acc) ==
    LET parts == ls[c].parts IN
    IF Len(parts) < 4
    THEN [exc |-> "IndexError", val |-> "list index out of range", species |-> acc]
    ELSE LET nk == ParseNumber(parts[4])
             nb == ParseNumber(parts[Len(parts)])
         IN  IF nk.exc # "" THEN [exc |-> nk.exc, val |-> nk.val, species |-> acc]
             ELSE IF nb.exc # ""
             THEN [exc |-> nb.exc, val |-> nb.val, species |-> acc]
             ELSE LET at == FindDelim2(ls, c) IN
                  IF at = 0
                  THEN [exc |-> "ParseError",
                        val |-> "Did not find the K-points in the OUTCAR",
                        species |-> acc]
                  ELSE IF nk.val < 0
                  THEN [exc |-> "ValueError", val |-> "negative dimensions",
                        species |-> acc]
                  ELSE LET rows == KpointRows(ls, at + 1, nk.val, <<>>, <<>>) IN
                       IF rows.exc # ""
                       THEN [exc |-> rows.exc, val |-> rows.val, species |-> acc]
                       ELSE [exc |-> "",
                             val |-> [nkpts |-> nk.val, nbands |-> nb.val,
                                      ibzkpts |-> rows.val.ibzkpts,
                                      kpt_weights |-> rows.val.kpt_weights],
                             species |-> acc]

\* LINE_DELIMITER of the header property parsers
HeaderDelimiter(name) ==
    CASE name = "SpeciesTypes" -> "POTCAR:"
      [] name = "IonsPerSpecies" -> "ions per type"
      [] name = "Spinpol" -> "ISPIN"
      [] name = "KpointHeader" -> "NKPTS"

\* SimpleProperty.has_property
Header_has_property(name, c, ls) == Contains(HeaderDelimiter(name), ls[c])

Header_parse(name, c, ls, acc) ==
    CASE name = "SpeciesTypes" -> SpeciesTypes_parse(c, ls, acc)
      [] name = "IonsPerSpecies" -> IonsPerSpecies_parse(c, ls, acc)
      [] name = "Spinpol" -> Spinpol_parse(c, ls, acc)
      [] name = "KpointHeader" -> KpointHeader_parse(c, ls, acc)

\* default_header_parsers.make_parsers(): the registry's parsers, in the
\* order they were added
default_header_parsers ==
    <<"SpeciesTypes", "IonsPerSpecies", "Spinpol", "KpointHeader">>

\* TypeParser.parse for a header parser: every line in order, every parser
\* in order at each line; a match's properties overwrite earlier ones.
\* (c, k): the current line and the current parser.
RECURSIVE HeaderParser_parse(_, _, _, _, _, _)

\* properties.update(prop) with the value r of parser.parse, and on to the
\* next parser; an exception of parser.parse ends the parse
HeaderParser_update(parsers, ls, c, k, props, r) ==
    IF r.exc # "" THEN r
    ELSE HeaderParser_parse(parsers, ls, c, k + 1, DictUpdate(props, r.val), r.species)

HeaderParser_parse(parsers, ls, c, k, props, acc) ==
    IF c > Len(ls) THEN [exc |-> "", val |-> props, species |-> acc]
    ELSE IF k > Len(parsers) THEN HeaderParser_parse(parsers, ls, c + 1, 1, props, acc)
    ELSE IF ~Header_has_property(parsers[k], c, ls)
         THEN HeaderParser_parse(parsers, ls, c, k + 1, props, acc)
         ELSE HeaderParser_update(parsers, ls, c, k, props,
                                  Header_parse(parsers[k], c, ls, acc))

\* A Repeat that ignores the ion count
Repeat_once(n, sym) == <<sym>>

\* symbols.extend(n * [sym])
RECURSIVE Repeat(_, _)
Repeat(n, sym) == IF n <= 0 THEN <<>> ELSE <<sym>> \o Repeat(n - 1, sym)

\* for n, sym in zip(ion_types, species): symbols.extend(n * [sym])
RECURSIVE ExpandSymbols(_, _)
ExpandSymbols(ion_types, sp) ==
    IF ion_types = <<>> \/ sp = <<>> THEN <<>>
    ELSE Repeat(Head(ion_types), Head(sp)) \o ExpandSymbols(Tail(ion_types), Tail(sp))

\* A _build_symbols that takes a missing key for an empty list
_build_symbols_default(results) ==
    [exc |-> "", val |-> <<>>,
     rest |-> [k \in (DOMAIN results) \ {"ion_types", "species"} |-> results[k]]]

\* A _build_symbols that pairs ion counts and species as far as the shorter
\* list goes, with no check of the lengths
_build_symbols_zip(results) ==
    IF "ion_types" \notin DOMAIN results
    THEN [exc |-> "ParseError", val |-> "Did not find required key ion_types",
          rest |-> results]
    ELSE IF "species" \notin DOMAIN results
    THEN [exc |-> "ParseError", val |-> "Did not find required key species",
          rest |-> results]
    ELSE [exc |-> "",
          val |-> ExpandSymbols(
                      SliceTo(results["ion_types"], Len(results["species"])),
                      SliceTo(results["species"], Len(results["ion_types"]))),
          rest |-> DictPop(DictPop(results, "ion_types"), "species")]

\* OutcarHeaderParser._build_symbols: the symbols and the results left
\* after the pops, or ParseError
_build_symbols(results) ==
    IF "symbols" \in DOMAIN results
    THEN [exc |-> "", val |-> results["symbols"], rest |-> DictPop(results, "symbols")]
    ELSE IF "ion_types" \notin DOMAIN results
    THEN [exc |-> "ParseError", val |-> "Did not find required key ion_types",
          rest |-> results]
    ELSE IF "species" \notin DOMAIN results
    THEN [exc |-> "ParseError", val |-> "Did not find required key species",
          rest |-> results]
    ELSE LET ion_types == results["ion_types"]
             sp == results["species"]
             rest == DictPop(DictPop(results, "ion_types"), "species")
         IN  IF Len(ion_types) # Len(sp)
             THEN [exc |-> "ParseError",
                   val |-> "Expected length of ion_types to be same as species",
                   rest |-> rest]
             ELSE [exc |-> "", val |-> ExpandSymbols(ion_types, sp), rest |-> rest]

\* header = dict(symbols=symbols, natoms=natoms, constraint=constraint,
\* **results), with the value syms of _build_symbols.  The constraint read
\* from CONTCAR/POSCAR is an opaque value; with no such file in the working
\* directory it is None.
HeaderDict(parsed, syms) ==
    IF syms.exc # ""
    THEN [exc |-> syms.exc, val |-> syms.val, species |-> parsed.species]
    ELSE [exc |-> "",
          val |-> DictUpdate([symbols |-> syms.val, natoms |-> Len(syms.val),
                              constraint |-> None],
                             syms.rest),
          species |-> parsed.species]

\* OutcarHeaderParser.build after results = self.parse(lines)
HeaderFromResults(parsed) ==
    IF parsed.exc # "" THEN parsed ELSE HeaderDict(parsed, _build_symbols(parsed.val))

\* OutcarHeaderParser.build: the header dict (or the exception) and the
\* species accumulator of the parser instance after the build
OutcarHeaderParser_build(parsers, ls, acc) ==
    HeaderFromResults(HeaderParser_parse(parsers, ls, 1, 1, EmptyDict, acc))

---------------------------------------------------------------------------
(* Numeric repair and tokenizing *)

\* ' '.join(parts): the text of a line, one space between its tokens
RECURSIVE JoinParts(_)
JoinParts(parts) ==
    IF parts = <<>> THEN <<>>
    ELSE IF Len(parts) = 1 THEN parts[1]
    ELSE parts[1] \o <<" ">> \o JoinParts(Tail(parts))

\* re.sub('([0-9])-([0-9])', r'\1 -\2', text): the matches are found from
\* left to right and do not overlap
RECURSIVE _check_line(_)
_check_line(text) ==
    IF Len(text) >= 3 /\ text[1] \in Digits /\ text[2] = "-" /\ text[3] \in Digits
    THEN <<text[1], " ", "-", text[3]>> \o _check_line(SubSeq(text, 4, Len(text)))
    ELSE IF text = <<>> THEN <<>>
    ELSE <<Head(text)>> \o _check_line(Tail(text))

\* text.split(): the maximal runs of characters other than the space
RECURSIVE SplitText(_, _)
SplitText(text, cur) ==
    IF text = <<>> THEN (IF cur = <<>> THEN <<>> ELSE <<cur>>)
    ELSE IF Head(text) = " "
         THEN (IF cur = <<>> THEN <<>> ELSE <<cur>>) \o SplitText(Tail(text), <<>>)
         ELSE SplitText(Tail(text), Append(cur, Head(text)))

\* VaspPropertyParser.get_line(cursor, lines).split()
get_line_parts(c, ls) == SplitText(_check_line(JoinParts(ls[c].parts)), <<>>)

---------------------------------------------------------------------------
(* Stress *)

\* 1e-1 * ase.units.GPa, in units of 1e-6 eV/Angstrom^3 (6.2415e-4 eV/A^3)
STRESS_UNIT == 624

\* The components left in the order of the OUTCAR
STRESS_ORDER_asread == <<1, 2, 3, 4, 5, 6>>

\* stress_arr[[0, 1, 2, 4, 5, 3]]: the 1-based positions read
STRESS_ORDER == <<1, 2, 3, 5, 6, 4>>

\* convert_vasp_outcar_stress
convert_vasp_outcar_stress(s) ==
    IF Len(s) # 6
    THEN Raise("ValueError", "Stress has the wrong shape")
    ELSE Return([i \in 1..6 |-> (0 - s[STRESS_ORDER[i]]) * STRESS_UNIT])

---------------------------------------------------------------------------
(* Chunk property parsers.  parse returns [exc, val, warned]: the dict of *)
(* parsed properties (or the exception) and the number of warn() calls.   *)

\* A get_from_header that answers 0 for a key the header lacks
get_from_header_default(hdr, key) ==
    IF key \in DOMAIN hdr THEN Return(hdr[key]) ELSE Return(0)

\* VaspChunkPropertyParser.get_from_header
get_from_header(hdr, key) ==
    IF key \in DOMAIN hdr THEN Return(hdr[key])
    ELSE Raise("ParseError", "Parser requested unavailable key from header")

Fail(r) == [exc |-> r.exc, val |-> r.val, warned |-> 0]
Done(props) == [exc |-> "", val |-> props, warned |-> 0]
IndexError == [exc |-> "IndexError", val |-> "list index out of range", warned |-> 0]

\* A Stress.parse that lets the ValueError of float() through
Stress_parse_strict(c, ls, hdr) ==
    LET floats == MapNumber(SliceFrom(get_line_parts(c, ls), 2)) IN
    IF floats.exc # "" THEN Fail(floats)
    ELSE LET conv == convert_vasp_outcar_stress(floats.val) IN
         IF conv.exc # "" THEN Fail(conv) ELSE Done([stress |-> conv.val])

Stress_parse(c, ls, hdr) ==
    LET floats == MapNumber(SliceFrom(get_line_parts(c, ls), 2)) IN
    IF floats.exc = "ValueError"
    THEN [exc |-> "", val |-> [stress |-> None], warned |-> 1]
    ELSE LET conv == convert_vasp_outcar_stress(floats.val) IN
         IF conv.exc # "" THEN Fail(conv) ELSE Done([stress |-> conv.val])

\* for i in range(3): cell[i, :] = list(map(float, parts[0:3]))
RECURSIVE CellRows(_, _, _, _)
CellRows(ls, row, n, acc) ==
    IF n = 0 THEN Return(acc)
    ELSE IF row > Len(ls) THEN Raise("IndexError", "list index out of range")
    ELSE LET floats == MapNumber(SliceTo(get_line_parts(row, ls), 3)) IN
         IF floats.exc # "" THEN floats
         ELSE LET r == AssignRow3(floats.val) IN
              IF r.exc # "" THEN r
              ELSE CellRows(ls, row + 1, n - 1, Append(acc, r.val))

Cell_parse(c, ls, hdr) ==
    LET rows == CellRows(ls, c + 1, 3, <<>>) IN
    IF rows.exc # "" THEN Fail(rows) ELSE Done([cell |-> rows.val])

\* for i in range(natoms): positions[i] = parts[0:3]; forces[i] = parts[3:6]
RECURSIVE PositionRows(_, _, _, _, _)
PositionRows(ls, row, n, ps, fs) ==
    IF n <= 0 THEN Return([positions |-> ps, forces |-> fs])
    ELSE IF row > Len(ls) THEN Raise("IndexError", "list index out of range")
    ELSE LET floats == MapNumber(get_line_parts(row, ls)) IN
         IF floats.exc # "" THEN floats
         ELSE LET p == AssignRow3(SliceTo(floats.val, 3))
                  f == AssignRow3(SliceTo(SliceFrom(floats.val, 3), 3))
              IN  IF p.exc # "" THEN p
                  ELSE IF f.exc # "" THEN f
                  ELSE PositionRows(ls, row + 1, n - 1,
                                    Append(ps, p.val), Append(fs, f.val))

\* A PositionsAndForces.parse that keeps the forces of the first atom only
PositionsAndForces_parse_oneforce(c, ls, hdr) ==
    LET natoms == get_from_header(hdr, "natoms") IN
    IF natoms.exc # "" THEN Fail(natoms)
    ELSE LET rows == PositionRows(ls, c + 2, natoms.val, <<>>, <<>>) IN
         IF rows.exc # "" THEN Fail(rows)
         ELSE Done([positions |-> rows.val.positions,
                    forces |-> SliceTo(rows.val.forces, 1)])

PositionsAndForces_parse(c, ls, hdr) ==
    LET natoms == get_from_header(hdr, "natoms") IN
    IF natoms.exc # "" THEN Fail(natoms)
    ELSE LET rows == PositionRows(ls, c + 2, natoms.val, <<>>, <<>>) IN
         IF rows.exc # "" THEN Fail(rows) ELSE Done(rows.val)

\* Magmom.has_property
MAGNETIZATION == <<"m", "a", "g", "n", "e", "t", "i", "z", "a", "t", "i", "o", "n">>
NELECT == <<"N", "E", "L", "E", "C", "T">>
Magmom_has_property(c, ls) ==
    /\ Contains("number of electron", ls[c])
    /\ Len(ls[c].parts) > 5
    /\ ls[c].parts[1] # NELECT

\* parts.index(tok): the 1-based position of the first part equal to tok, 0
\* when there is none (ValueError)
PartsIndex(parts, tok) ==
    IF \E i \in 1..Len(parts) : parts[i] = tok
    THEN CHOOSE i \in 1..Len(parts) :
             parts[i] = tok /\ \A j \in 1..(i - 1) : parts[j] # tok
    ELSE 0

Magmom_parse(c, ls, hdr) ==
    LET parts == get_line_parts(c, ls)
        at == PartsIndex(parts, MAGNETIZATION)
    IN  IF at = 0
        THEN [exc |-> "ValueError", val |-> "is not in list", warned |-> 0]
        ELSE LET magmom_lst == SliceFrom(parts, at)
                 w == IF Len(magmom_lst) # 1 THEN 1 ELSE 0
             IN  IF magmom_lst = <<>>
                 THEN [exc |-> "IndexError", val |-> "list index out of range",
                       warned |-> w]
                 ELSE LET m == ParseNumber(magmom_lst[1]) IN
                      IF m.exc # ""
                      THEN [exc |-> m.exc, val |-> m.val, warned |-> w]
                      ELSE [exc |-> "", val |-> [magmom |-> m.val], warned |-> w]

\* for i in range(natoms): magmoms[i] = float(line.split()[-1])
RECURSIVE MagmomRows(_, _, _, _)
MagmomRows(ls, row, n, acc) ==
    IF n <= 0 THEN Return(acc)
    ELSE IF row > Len(ls) THEN Raise("IndexError", "list index out of range")
    ELSE LET parts == get_line_parts(row, ls) IN
         IF parts = <<>> THEN Raise("IndexError", "list index out of range")
         ELSE LET m == ParseNumber(parts[Len(parts)]) IN
              IF m.exc # "" THEN m
              ELSE MagmomRows(ls, row + 1, n - 1, Append(acc, m.val))

Magmoms_parse(c, ls, hdr) ==
    LET natoms == get_from_header(hdr, "natoms") IN
    IF natoms.exc # "" THEN Fail(natoms)
    ELSE LET rows == MagmomRows(ls, c + 4, natoms.val, <<>>) IN
         IF rows.exc # "" THEN Fail(rows) ELSE Done([magmoms |-> rows.val])

EFermi_parse(c, ls, hdr) ==
    LET parts == get_line_parts(c, ls) IN
    IF Len(parts) < 3 THEN IndexError
    ELSE LET e == ParseNumber(parts[3]) IN
         IF e.exc # "" THEN Fail(e) ELSE Done([efermi |-> e.val])

Energy_parse(c, ls, hdr) ==
    IF c + 2 > Len(ls) THEN IndexError
    ELSE LET parts2 == get_line_parts(c + 2, ls) IN
         IF Len(parts2) < 5 THEN IndexError
         ELSE LET energy_free == ParseNumber(parts2[5]) IN
              IF energy_free.exc # "" THEN Fail(energy_free)
              ELSE IF c + 4 > Len(ls) THEN IndexError
              ELSE LET parts4 == get_line_parts(c + 4, ls) IN
                   IF Len(parts4) < 7 THEN IndexError
                   ELSE LET energy_zero == ParseNumber(parts4[7]) IN
                        IF energy_zero.exc # "" THEN Fail(energy_zero)
                        ELSE Done([free_energy |-> energy_free.val,
                                   energy |-> energy_zero.val])

\* Kpoints.has_property
Kpoints_has_property(c, ls) ==
    /\ Contains("spin component 1", ls[c])
    /\ Len(ls[c].parts) = 3
    /\ ParseNumber(ls[c].parts[3]).exc = ""

\* for n in range(nbands): one band line each, read without get_line; the
\* cursor is left on the last band line
RECURSIVE KpointBands(_, _, _, _, _)
KpointBands(ls, cur, n, eps, occ) ==
    IF n <= 0 THEN [exc |-> "", val |-> [eps_n |-> eps, f_n |-> occ], cursor |-> cur]
    ELSE IF cur > Len(ls)
    THEN [exc |-> "IndexError", val |-> "list index out of range", cursor |-> cur]
    ELSE LET floats == MapNumber(SliceFrom(ls[cur].parts, 1)) IN
         IF floats.exc # "" \/ Len(floats.val) # 2
         THEN [exc |-> "ValueError", val |-> "cannot unpack", cursor |-> cur]
         ELSE KpointBands(ls, IF n = 1 THEN cur ELSE cur + 1, n - 1,
                          Append(eps, floats.val[1]), Append(occ, floats.val[2]))

\* weights[ikpt] of a numpy array: a negative index counts from the end
ArrayIndex(arr, i) ==
    LET at == IF i < 0 THEN Len(arr) + i + 1 ELSE i + 1 IN
    IF at < 1 \/ at > Len(arr) THEN Raise("IndexError", "index out of bounds")
    ELSE Return(arr[at])

\* A gap of two lines after every k-point, the last of a block included
KpointGap_two(iiskip, nkpts) == 2

\* if iiskip == nkpts: cursor += 3, else: cursor += 2
KpointGap(iiskip, nkpts) == IF iiskip = nkpts THEN 3 ELSE 2

\* for _ in range(nkpts): iiskip counts the k-points done in this block
RECURSIVE KpointBlock(_, _, _, _, _, _, _, _)
KpointBlock(ls, cur, iiskip, nkpts, nbands, weights, spin, kpts) ==
    IF iiskip >= nkpts THEN [exc |-> "", val |-> kpts, cursor |-> cur]
    ELSE IF cur > Len(ls)
    THEN [exc |-> "IndexError", val |-> "list index out of range", cursor |-> cur]
    ELSE LET parts == get_line_parts(cur, ls) IN
         IF Len(parts) < 2
         THEN [exc |-> "IndexError", val |-> "list index out of range", cursor |-> cur]
         ELSE LET num == ParseNumber(parts[2]) IN
              IF num.exc # "" THEN [exc |-> num.exc, val |-> num.val, cursor |-> cur]
              ELSE LET ikpt == num.val - 1
                       weight == ArrayIndex(weights, ikpt)
                   IN  IF weight.exc # ""
                       THEN [exc |-> weight.exc, val |-> weight.val, cursor |-> cur]
                       ELSE LET bands == KpointBands(ls, cur + 2, nbands, <<>>, <<>>) IN
                            IF bands.exc # "" THEN bands
                            ELSE KpointBlock(
                                     ls,
                                     bands.cursor + KpointGap(iiskip + 1, nkpts),
                                     iiskip + 1, nkpts, nbands, weights, spin,
                                     Append(kpts, [weight |-> weight.val, s |-> spin,
                                                   k |-> ikpt,
                                                   eps_n |-> bands.val.eps_n,
                                                   f_n |-> bands.val.f_n]))

\* 'spin component' in line
HasSpinComponent(line) ==
    Contains("spin component 1", line) \/ Contains("spin component 2", line)

\* for spin in range(nspins)
RECURSIVE KpointSpins(_, _, _, _, _, _, _, _)
KpointSpins(ls, cur, spin, nspins, nkpts, nbands, weights, kpts) ==
    IF spin >= nspins THEN Return(kpts)
    ELSE IF cur > Len(ls) THEN Raise("IndexError", "list index out of range")
    ELSE IF ~HasSpinComponent(ls[cur]) THEN Raise("AssertionError", "")
    ELSE LET block == KpointBlock(ls, cur + 2, 0, nkpts, nbands, weights, spin, kpts) IN
         IF block.exc # "" THEN Raise(block.exc, block.val)
         ELSE KpointSpins(ls, block.cursor, spin + 1, nspins, nkpts, nbands,
                          weights, block.val)

Kpoints_parse(c, ls, hdr) ==
    LET nkpts == get_from_header(hdr, "nkpts")
        nbands == get_from_header(hdr, "nbands")
        weights == get_from_header(hdr, "kpt_weights")
        spinpol == get_from_header(hdr, "spinpol")
    IN  IF nkpts.exc # "" THEN Fail(nkpts)
        ELSE IF nbands.exc # "" THEN Fail(nbands)
        ELSE IF weights.exc # "" THEN Fail(weights)
        ELSE IF spinpol.exc # "" THEN Fail(spinpol)
        ELSE LET kpts == KpointSpins(ls, c, 0, IF spinpol.val THEN 2 ELSE 1,
                                     nkpts.val, nbands.val, weights.val, <<>>)
             IN  IF kpts.exc # "" THEN Fail(kpts) ELSE Done([kpts |-> kpts.val])

\* LINE_DELIMITER of the chunk property parsers that are SimpleProperty
ChunkDelimiter(name) ==
    CASE name = "Cell" -> "direct lattice vectors"
      [] name = "PositionsAndForces" -> "POSITION          "
      [] name = "Stress" -> "in kB "
      [] name = "Magmoms" -> "magnetization (x)"
      [] name = "EFermi" -> "E-fermi :"
      [] name = "Energy" -> OUTCAR_SCF_DELIM

Chunk_has_property(name, c, ls) ==
    CASE name = "Magmom" -> Magmom_has_property(c, ls)
      [] name = "Kpoints" -> Kpoints_has_property(c, ls)
      [] OTHER -> Contains(ChunkDelimiter(name), ls[c])

Chunk_parse(name, c, ls, hdr) ==
    CASE name = "Cell" -> Cell_parse(c, ls, hdr)
      [] name = "PositionsAndForces" -> PositionsAndForces_parse(c, ls, hdr)
      [] name = "Stress" -> Stress_parse(c, ls, hdr)
      [] name = "Magmoms" -> Magmoms_parse(c, ls, hdr)
      [] name = "Magmom" -> Magmom_parse(c, ls, hdr)
      [] name = "EFermi" -> EFermi_parse(c, ls, hdr)
      [] name = "Kpoints" -> Kpoints_parse(c, ls, hdr)
      [] name = "Energy" -> Energy_parse(c, ls, hdr)

\* default_chunk_parsers.make_parsers()
default_chunk_parsers ==
    <<"Cell", "PositionsAndForces", "Stress", "Magmoms", "Magmom", "EFermi",
      "Kpoints", "Energy">>

\* The names held by the two default registries when the module is loaded
DefaultRegistry == [header |-> default_header_parsers, chunk |-> default_chunk_parsers]

\* TypeParser.parse for a chunk parser, as two loops: the parsers at one
\* line (k: the current parser), and the lines (c: the current line); w
\* counts the warnings so far
RECURSIVE ChunkParser_line(_, _, _, _, _, _, _)

\* properties.update(prop) with the value r of parser.parse, and on to the
\* next parser; an exception of parser.parse ends the parse
ChunkParser_update(parsers, hdr, ls, c, k, props, w, r) ==
    IF r.exc # "" THEN [exc |-> r.exc, val |-> r.val, warned |-> w + r.warned]
    ELSE ChunkParser_line(parsers, hdr, ls, c, k + 1,
                          DictUpdate(props, r.val), w + r.warned)

\* for parser in self.parsers, at the line c
ChunkParser_line(parsers, hdr, ls, c, k, props, w) ==
    IF k > Len(parsers) THEN [exc |-> "", val |-> props, warned |-> w]
    ELSE IF ~Chunk_has_property(parsers[k], c, ls)
         THEN ChunkParser_line(parsers, hdr, ls, c, k + 1, props, w)
         ELSE ChunkParser_update(parsers, hdr, ls, c, k, props, w,
                                 Chunk_parse(parsers[k], c, ls, hdr))

RECURSIVE ChunkParser_parse(_, _, _, _, _, _)

\* On to the next line with what the parsers made of this one (r)
ChunkParser_next(parsers, hdr, ls, c, r) ==
    IF r.exc # "" THEN r
    ELSE ChunkParser_parse(parsers, hdr, ls, c + 1, r.val, r.warned)

\* for cursor, _ in enumerate(lines)
ChunkParser_parse(parsers, hdr, ls, c, props, w) ==
    IF c > Len(ls) THEN [exc |-> "", val |-> props, warned |-> w]
    ELSE ChunkParser_next(parsers, hdr, ls, c,
                          ChunkParser_line(parsers, hdr, ls, c, 1, props, w))

\* The properties SinglePointDFTCalculator(atoms, **results) keeps in
\* calc.results: every result but efermi, and none whose value is None (of
\* the chunk property parsers only Stress returns a None)
CalcResults(results) ==
    LET keep == {key \in (DOMAIN results) \ {"efermi"} :
                     IF key = "stress" THEN results[key] # None ELSE TRUE}
    IN  [key \in keep |-> results[key]]

\* dict.get(key, None) and dict.pop(key, None), as an optional value
DictGet(d, key) == IF key \in DOMAIN d THEN Some(d[key]) ELSE None

\* An Atoms object whose calculator has a Fermi energy of 0 and a free
\* energy of 0 when none was parsed
AtomsWithCalc_defaults(hdr, results) ==
    [symbols |-> hdr["symbols"],
     constraint |-> IF "constraint" \in DOMAIN hdr THEN hdr["constraint"] ELSE None,
     pbc |-> TRUE,
     positions |-> results["positions"],
     cell |-> results["cell"],
     results |-> CalcResults(DictPop(DictPop(DictPop(
                     IF "free_energy" \in DOMAIN results THEN results
                     ELSE [key \in DOMAIN results \cup {"free_energy"} |->
                              IF key = "free_energy" THEN 0 ELSE results[key]],
                     "positions"), "cell"), "kpts")),
     efermi |-> IF "efermi" \in DOMAIN results THEN Some(results["efermi"]) ELSE Some(0),
     kpts |-> DictGet(results, "kpts"),
     name |-> "vasp"]

\* The Atoms object and its calculator from the parsed results
AtomsWithCalc(hdr, results) ==
    [symbols |-> hdr["symbols"],
     constraint |-> IF "constraint" \in DOMAIN hdr THEN hdr["constraint"] ELSE None,
     pbc |-> TRUE,
     positions |-> results["positions"],
     cell |-> results["cell"],
     results |-> CalcResults(DictPop(DictPop(DictPop(results, "positions"), "cell"),
                                     "kpts")),
     efermi |-> DictGet(results, "efermi"),
     kpts |-> DictGet(results, "kpts"),
     name |-> "vasp"]

\* A build that takes a missing required property for an empty one
AtomsFromResults_lenient(hdr, parsed) ==
    IF parsed.exc # "" THEN parsed
    ELSE [exc |-> "",
          val |-> [symbols |-> hdr["symbols"],
                   positions |-> IF "positions" \in DOMAIN parsed.val
                                 THEN parsed.val["positions"] ELSE <<>>,
                   cell |-> IF "cell" \in DOMAIN parsed.val
                            THEN parsed.val["cell"] ELSE <<>>],
          warned |-> parsed.warned]

\* OutcarChunkParser.build after results = self.parse(lines): the Atoms
\* object with its calculator, or the exception, and the number of warnings
AtomsFromResults(hdr, parsed) ==
    IF parsed.exc # "" THEN parsed
    ELSE IF "symbols" \notin DOMAIN hdr
    THEN [exc |-> "KeyError", val |-> "symbols", warned |-> parsed.warned]
    ELSE IF "positions" \notin DOMAIN parsed.val
    THEN [exc |-> "ParseError",
          val |-> "Did not find required property positions during parse.",
          warned |-> parsed.warned]
    ELSE IF "cell" \notin DOMAIN parsed.val
    THEN [exc |-> "ParseError",
          val |-> "Did not find required property cell during parse.",
          warned |-> parsed.warned]
    ELSE IF Len(parsed.val["positions"]) # Len(hdr["symbols"])
    THEN [exc |-> "ValueError", val |-> "Array positions has wrong length",
          warned |-> parsed.warned]
    ELSE [exc |-> "", val |-> AtomsWithCalc(hdr, parsed.val), warned |-> parsed.warned]

\* OutcarChunkParser.build
OutcarChunkParser_build(parsers, hdr, ls) ==
    AtomsFromResults(hdr, ChunkParser_parse(parsers, hdr, ls, 1, EmptyDict, 0))

---------------------------------------------------------------------------
(* Lines of a log *)

\* A line that contains none of the delimiters
TextLine == [d |-> "", parts |-> <<>>]
\* "  ----- Iteration 1( 1) -----"
IterationLine == [d |-> "Iteration", parts |-> <<<<"I", "t", "e", "r", "a", "t", "i", "o", "n">>, <<"1">>>>]
\* "  FREE ENERGIE OF THE ION-ELECTRON SYSTEM (eV)", with no energy block
ScfLine == [d |-> "FREE ENERGIE OF THE ION-ELECTRON SYSTEM", parts |-> <<<<"F", "R", "E", "E">>, <<"E", "N", "E", "R", "G", "I", "E">>>>]
\* " POTCAR:    PAW_PBE X 02Aug2007" and the same for Y
PotcarX == [d |-> "POTCAR:", parts |-> <<<<"P", "O", "T", "C", "A", "R", ":">>, <<"P", "A", "W", "_", "P", "B", "E">>, <<"X">>, <<"0", "2", "A", "u", "g">>>>]
PotcarY == [d |-> "POTCAR:", parts |-> <<<<"P", "O", "T", "C", "A", "R", ":">>, <<"P", "A", "W", "_", "P", "B", "E">>, <<"Y">>, <<"0", "2", "A", "u", "g">>>>]
\* "   ions per type =   1"
Ions1 == [d |-> "ions per type", parts |-> <<<<"i", "o", "n", "s">>, <<"p", "e", "r">>, <<"t", "y", "p", "e">>, <<"=">>, <<"1">>>>]

\* " POTCAR:    PAW_PBE Q 02Aug2007": Q is no element
PotcarQ ==
    [d |-> "POTCAR:",      parts |-> <<<<"P", "O", "T", "C", "A", "R", ":">>,
     <<"P", "A", "W", "_", "P", "B", "E">>, <<"Q">>, <<"0", "2", "A", "u",
     "g">>>>]
\* "   ions per type =   2   3"
Ions23 ==
    [d |-> "ions per type",      parts |-> <<<<"i", "o", "n", "s">>, <<"p", "e",
     "r">>, <<"t", "y", "p", "e">>, <<"=">>, <<"2">>, <<"3">>>>]
\* "   ions per type =   2"
Ions2 ==
    [d |-> "ions per type",
     parts |-> <<<<"i", "o", "n", "s">>, <<"p", "e", "r">>, <<"t", "y", "p", "e">>, <<"=">>, <<"2">>>>]
\* "   ISPIN  =      2    spin polarized calculation?"
IspinLine ==
    [d |-> "ISPIN",      parts |-> <<<<"I", "S", "P", "I", "N">>, <<"=">>,
     <<"2">>, <<"s", "p", "i", "n">>>>]
\* " direct lattice vectors    reciprocal lattice vectors"
CellLine ==
    [d |-> "direct lattice vectors",      parts |-> <<<<"d", "i", "r", "e", "c",
     "t">>, <<"l", "a", "t", "t", "i", "c", "e">>, <<"v", "e", "c", "t",
     "o", "r", "s">>>>]
\* A row of the lattice block: "  1  0  0    1  0  0"
CellRow ==
    [d |-> "",      parts |-> <<<<"1">>, <<"0">>, <<"0">>, <<"1">>, <<"0">>,
     <<"0">>>>]
\* " POSITION          TOTAL-FORCE (eV/Angst)"
PositionLine ==
    [d |-> "POSITION          ",      parts |-> <<<<"P", "O", "S", "I", "T",
     "I", "O", "N">>, <<"T", "O", "T", "A", "L", "-", "F", "O", "R", "C",
     "E">>>>]
\* " -----------------------------------------"
RuleLine ==
    [d |-> "",      parts |-> <<<<"-", "-">>>>]
\* A row of the positions block: x y z fx fy fz
PositionRow ==
    [d |-> "",      parts |-> <<<<"1">>, <<"2">>, <<"3">>, <<"-", "1">>, <<"-",
     "2">>, <<"-", "3">>>>]
\* "  in kB   1  2  3  4  5  6" and stress lines with five numbers and with
\* a field that is no number
StressLine6 ==
    [d |-> "in kB ",      parts |-> <<<<"i", "n">>, <<"k", "B">>, <<"1">>,
     <<"2">>, <<"3">>, <<"4">>, <<"5">>, <<"6">>>>]
StressLine5 ==
    [d |-> "in kB ",      parts |-> <<<<"i", "n">>, <<"k", "B">>, <<"1">>,
     <<"2">>, <<"3">>, <<"4">>, <<"5">>>>]
StressLineBad ==
    [d |-> "in kB ",      parts |-> <<<<"i", "n">>, <<"k", "B">>, <<"1">>,
     <<"2">>, <<"3">>, <<"4">>, <<"5">>, <<"*", "*">>>>]
\* " E-fermi :   3     XC(G=0):  -1     alpha+bet : -2"
EFermiLine ==
    [d |-> "E-fermi :",      parts |-> <<<<"E", "-", "f", "e", "r", "m", "i">>,
     <<":">>, <<"3">>, <<"X", "C">>>>]
\* "  free  energy   TOTEN  =   -11 eV"
FreeEnergyLine ==
    [d |-> "",      parts |-> <<<<"f", "r", "e", "e">>, <<"e", "n", "e", "r",
     "g", "y">>, <<"T", "O", "T", "E", "N">>, <<"=">>, <<"-", "1", "1">>,
     <<"e", "V">>>>]
\* "  energy  without entropy=   -10  energy(sigma->0) =   -12"
EnergyZeroLine ==
    [d |-> "",      parts |-> <<<<"e", "n", "e", "r", "g", "y">>, <<"w", "i",
     "t", "h", "o", "u", "t">>, <<"e", "n", "t", "r", "o", "p", "y", "=">>,
     <<"-", "1", "0">>, <<"e", "n", "e", "r", "g", "y">>, <<"=">>, <<"-",
     "1", "2">>>>]

---------------------------------------------------------------------------
(* outcarchunks: the generator and its caller *)

\* Sequences over a set, up to a length
SeqsUpTo(S, n) == UNION {[1..m -> S] : m \in 0..n}

\* The longest stream body (the lines after the header prefix)
MaxBody == 11

\* What a stream starts with: nothing, a complete header for one atom of X,
\* the same followed by the 'Iteration' line of the next electronic step, a
\* header whose lines give no species and no ion counts, and species and
\* ion counts with no line ending the header
HeaderPrefixes ==
    { <<>>,
      <<PotcarX, PotcarX, Ions1, IterationLine>>,
      <<PotcarX, PotcarX, Ions1, IterationLine, IterationLine>>,
      <<IterationLine>>,
      <<PotcarX, PotcarX, Ions1>> }

BodyLines == {TextLine, ScfLine}

Streams == {h \o b : h \in HeaderPrefixes, b \in SeqsUpTo(BodyLines, MaxBody)}

NoHeader == EmptyDict

InitSeg ==
    /\ fd \in Streams
    /\ pos = 0
    /\ pc = "created"
    /\ header = NoHeader
    /\ yielded = <<>>
    /\ outcome = Return("none")
    /\ species = <<>>
    /\ lines = <<>>
    /\ result = Return(None)
    /\ warnings = 0
    /\ stress = <<>>
    /\ raw = <<>>
    /\ callers = <<>>
    /\ instances = <<>>
    /\ registry = DefaultRegistry
    /\ dict_INCAR = EmptyDict
    /\ dict_Analysis = EmptyDict

\* yield OUTCARChunk(lines, header, parser=chunk_parser) with the value c of
\* build_chunk, or return when build_chunk raised StopIteration
YieldOrReturn(hdr, c) ==
    /\ pos' = c.pos
    /\ header' = hdr
    /\ IF c.exc = "StopIteration"
       THEN /\ pc' = "returned"
            /\ outcome' = Raise("StopIteration", "")
            /\ yielded' = yielded
       ELSE /\ pc' = "suspended"
            /\ outcome' = Return("chunk")
            /\ yielded' = Append(yielded, [lines |-> c.val, header |-> hdr])

\* An outcarchunks whose loop body runs once: 'if' for 'while'
NextChunk_once(hdr, p) ==
    IF yielded # <<>>
    THEN YieldOrReturn(hdr, [exc |-> "StopIteration", val |-> <<>>, pos |-> p])
    ELSE YieldOrReturn(hdr, build_chunk(fd, p))

\* An outcarchunks that has read the whole stream when it yields a chunk
NextChunk_readahead(hdr, p) ==
    YieldOrReturn(hdr, [build_chunk(fd, p) EXCEPT !.pos = Len(fd)])

\* The while loop of outcarchunks, entered at the top with header hdr and
\* the stream at p: the next chunk is yielded, or the generator returns
NextChunk(hdr, p) == YieldOrReturn(hdr, build_chunk(fd, p))

\* outcarchunks after header = header_parser.build(lines), b its value and
\* p the stream position after build_header
AfterHeaderBuild(b, p) ==
    /\ species' = b.species
    /\ IF b.exc # ""
       THEN /\ pc' = "raised"
            /\ outcome' = Raise(b.exc, b.val)
            /\ pos' = p
            /\ UNCHANGED <<header, yielded>>
       ELSE NextChunk(b.val, p)

\* outcarchunks after lines = build_header(fd), h its value; the header
\* parser is a new OutcarHeaderParser, whose species accumulator is empty
AfterBuildHeader(h) ==
    IF h.exc # ""
    THEN /\ pc' = "raised"
         /\ outcome' = Raise(h.exc, h.val)
         /\ pos' = h.pos
         /\ UNCHANGED <<header, yielded, species>>
    ELSE AfterHeaderBuild(
             OutcarHeaderParser_build(default_header_parsers, h.val, <<>>), h.pos)

\* The caller's first next(): the body of outcarchunks up to its first yield
FirstPull ==
    /\ pc = "created"
    /\ AfterBuildHeader(build_header(fd, pos))
    /\ UNCHANGED <<fd, lines, result, warnings, stress, raw, callers, instances, registry, dict_INCAR,
                   dict_Analysis>>

\* A later next(): the generator resumes after its yield
LaterPull ==
    /\ pc = "suspended"
    /\ NextChunk(header, pos)
    /\ UNCHANGED <<fd, species, lines, result, warnings, stress, raw, callers, instances, registry, dict_INCAR,
                   dict_Analysis>>

NextSeg == FirstPull \/ LaterPull

SpecSeg == InitSeg /\ [][NextSeg]_vars

---------------------------------------------------------------------------
(* The layout of a log, stated on the stream itself *)

HasHeaderMarker(i) == Contains("Iteration", fd[i])
HasScfMarker(i) == Contains("FREE ENERGIE OF THE ION-ELECTRON SYSTEM", fd[i])

\* The first line with the header marker, 0 when no line has it
HeaderEnd ==
    IF \E i \in 1..Len(fd) : HasHeaderMarker(i)
    THEN CHOOSE i \in 1..Len(fd) :
             HasHeaderMarker(i) /\ \A j \in 1..(i - 1) : ~HasHeaderMarker(j)
    ELSE 0

\* The last line of the complete chunk that starts after line s: four lines
\* after the first line with the energy marker; 0 when there is no such chunk
ChunkEnd(s) ==
    LET M == {i \in (s + 1)..Len(fd) : HasScfMarker(i)} IN
    IF M = {} THEN 0
    ELSE LET m == CHOOSE i \in M : \A j \in M : i <= j IN
         IF m + 4 > Len(fd) THEN 0 ELSE m + 4

\* The complete chunks of the log after line s, in order
RECURSIVE LogChunks(_)
LogChunks(s) ==
    IF ChunkEnd(s) = 0 THEN <<>>
    ELSE <<SubSeq(fd, s + 1, ChunkEnd(s))>> \o LogChunks(ChunkEnd(s))

\* The line after which no complete chunk starts
RECURSIVE LogChunksEnd(_)
LogChunksEnd(s) == IF ChunkEnd(s) = 0 THEN s ELSE LogChunksEnd(ChunkEnd(s))

\* The lines of the chunks handed to the caller
YieldedLines == [k \in 1..Len(yielded) |-> yielded[k].lines]

\* The header lines of the log build into a header
HeaderBuilds ==
    /\ HeaderEnd > 0
    /\ OutcarHeaderParser_build(default_header_parsers,
                                SubSeq(fd, 1, HeaderEnd), <<>>).exc = ""

\* A header, then well-formed chunks, then nothing
WellFormedLog == HeaderBuilds /\ LogChunksEnd(HeaderEnd) = Len(fd)

\* C1, at every moment: the chunks yielded so far are the first chunks of
\* the log, in order, and the generator has not failed.
C1_YieldedSoFar ==
    /\ pc # "raised"
    /\ Len(yielded) <= Len(LogChunks(HeaderEnd))
    /\ YieldedLines = SubSeq(LogChunks(HeaderEnd), 1, Len(yielded))
    /\ pc = "returned" =>
          /\ Len(yielded) = Len(LogChunks(HeaderEnd))
          /\ outcome = Raise("StopIteration", "")

\* C1: for a log made of a header and N well-formed chunks and nothing
\* else, the lazy sequence yields exactly the N chunks of the log in order
\* and then terminates: the chunks yielded so far are always the leading
\* chunks of the log and the generator never fails (so that a pull is
\* possible until it has returned), every pull yields one more chunk or
\* makes the generator return, and it returns with all N chunks yielded.
C1_YieldsEveryChunkThenTerminates ==
    /\ [](WellFormedLog => C1_YieldedSoFar)
    /\ [][WellFormedLog =>
              \/ pc' = "suspended" /\ Len(yielded') = Len(yielded) + 1
              \/ pc' = "returned" /\ YieldedLines' = LogChunks(HeaderEnd)]_vars

\* C1 witness: a log of a header and two chunks, read to its end
C1_Witness ==
    /\ WellFormedLog
    /\ pc = "returned"
    /\ Len(yielded) = 2
    /\ yielded[1].lines # yielded[2].lines

\* C2: when the stream ends while a chunk is being collected the sequence
\* ends with no error (the generator returns), the whole stream has been
\* read, and the chunks yielded are exactly the complete chunks before the
\* partial one, which is not yielded.
C2_TruncatedChunkDropped ==
    (pc = "returned") =>
        /\ outcome = Raise("StopIteration", "")
        /\ pos = Len(fd)
        /\ YieldedLines = LogChunks(HeaderEnd)

\* C2 witness: the stream ended after the marker line of a second chunk and
\* before its four continuation lines; the first chunk was yielded
C2_Witness ==
    /\ pc = "returned"
    /\ Len(yielded) = 1
    /\ LogChunksEnd(HeaderEnd) < Len(fd)
    /\ \E i \in (LogChunksEnd(HeaderEnd) + 1)..Len(fd) : HasScfMarker(i)

\* C3: with no line that has the header marker (the empty stream included)
\* the first pull fails with ParseError 'Incomplete OUTCAR' and no chunk is
\* ever yielded.
C3_IncompleteLog ==
    (\A i \in 1..Len(fd) : ~HasHeaderMarker(i)) =>
        /\ yielded = <<>>
        /\ pc \in {"created", "raised"}
        /\ pc = "raised" => outcome = Raise("ParseError", "Incomplete OUTCAR")

\* C3 witness: a stream with species, ion counts and an energy marker but
\* no header marker, after the first pull
C3_Witness ==
    /\ \A i \in 1..Len(fd) : ~HasHeaderMarker(i)
    /\ \E i \in 1..Len(fd) : HasScfMarker(i)
    /\ \E i \in 1..Len(fd) : Contains("POTCAR:", fd[i])
    /\ pc = "raised"

\* C4: every yielded chunk has at least 5 lines, its fifth line from the
\* end has the energy marker and no earlier line of it has.
C4_ChunkEndsFourAfterMarker ==
    \A k \in 1..Len(yielded) :
        LET c == yielded[k].lines IN
        /\ Len(c) >= 5
        /\ Contains("FREE ENERGIE OF THE ION-ELECTRON SYSTEM", c[Len(c) - 4])
        /\ \A i \in 1..(Len(c) - 5) :
               ~Contains("FREE ENERGIE OF THE ION-ELECTRON SYSTEM", c[i])

\* C4 witness: a yielded chunk with lines before its marker line and with
\* another marker line among its four continuation lines
C4_Witness ==
    \E k \in 1..Len(yielded) :
        LET c == yielded[k].lines IN
        /\ Len(c) > 5
        /\ \E i \in (Len(c) - 3)..Len(c) :
               Contains("FREE ENERGIE OF THE ION-ELECTRON SYSTEM", c[i])

---------------------------------------------------------------------------
(* The header builder on its own: one OutcarHeaderParser instance with the *)
(* default parsers, given header lines                                     *)

\* The longest list of header lines
MaxHeaderLen == 4

HeaderLines == {PotcarX, PotcarY, PotcarQ, Ions23, Ions1, IspinLine, TextLine}

InitHeader ==
    /\ lines \in SeqsUpTo(HeaderLines, MaxHeaderLen)
    /\ pc = "ready"
    /\ species = <<>>
    /\ result = Return(None)
    /\ header = NoHeader
    /\ fd = <<>>
    /\ pos = 0
    /\ yielded = <<>>
    /\ outcome = Return("none")
    /\ warnings = 0
    /\ stress = <<>>
    /\ raw = <<>>
    /\ callers = <<>>
    /\ instances = <<>>
    /\ registry = DefaultRegistry
    /\ dict_INCAR = EmptyDict
    /\ dict_Analysis = EmptyDict

\* The caller keeps what build returned or raised (b)
HeaderBuilt(b) ==
    /\ result' = [exc |-> b.exc, val |-> b.val]
    /\ species' = b.species
    /\ header' = IF b.exc = "" THEN b.val ELSE header

\* header_parser.build(lines)
HeaderBuild ==
    /\ pc = "ready"
    /\ HeaderBuilt(OutcarHeaderParser_build(default_header_parsers, lines, species))
    /\ pc' = "built"
    /\ UNCHANGED <<fd, pos, yielded, outcome, lines, warnings, stress, raw, callers, instances, registry, dict_INCAR,
                   dict_Analysis>>

\* The SpeciesTypes parser's get_species(), called by the caller
GetSpecies ==
    /\ pc = "built"
    /\ result' = Return(get_species(species))
    /\ pc' = "queried"
    /\ UNCHANGED <<fd, pos, header, yielded, outcome, species, lines, warnings,
                   stress, raw, callers, instances, registry, dict_INCAR,
                   dict_Analysis>>

NextHeader == HeaderBuild \/ GetSpecies

SpecHeader == InitHeader /\ [][NextHeader]_vars

---------------------------------------------------------------------------
(* Claims about the header builder *)

IsPotcarLine(line) == Contains("POTCAR:", line)
IsIonsLine(line) == Contains("ions per type", line)

\* The element named by each POTCAR line of the header lines, in order
C6_RawSpecies ==
    LET potcars == SelectSeq(lines, IsPotcarLine) IN
    [i \in 1..Len(potcars) |-> potcars[i].parts[3]]

\* The species of the header: each is named twice, the first half names them
C6_Species == SubSeq(C6_RawSpecies, 1, (Len(C6_RawSpecies) + 1) \div 2)

\* The ion counts of the last "ions per type" line of the header lines
C6_Counts ==
    LET ions == SelectSeq(lines, IsIonsLine) IN
    IF ions = <<>> THEN <<>>
    ELSE IF ions[Len(ions)] = Ions23 THEN <<2, 3>> ELSE <<1>>

\* n1 + ... + nj
RECURSIVE C6_SumTo(_, _)
C6_SumTo(counts, j) == IF j = 0 THEN 0 ELSE C6_SumTo(counts, j - 1) + counts[j]

\* C6: a header that builds has, for species [s1..sk] and ion counts
\* [n1..nk], the symbols s1 n1 times, then s2 n2 times, and so on: the i-th
\* symbol is the species j with n1+..+n(j-1) < i <= n1+..+nj, and natoms is
\* the length of the symbols, n1+...+nk. Species [X, Y] with counts [2, 3]
\* give [X, X, Y, Y, Y] and natoms 5.
C6_SymbolsExpandSpeciesByCount ==
    (pc # "ready" /\ DOMAIN header # {}) =>
        LET sp == C6_Species
            n == C6_Counts
            symbols == header["symbols"]
        IN  /\ Len(sp) = Len(n)
            /\ Len(symbols) = C6_SumTo(n, Len(n))
            /\ header["natoms"] = Len(symbols)
            /\ \A i \in 1..Len(symbols) :
                   \E j \in 1..Len(n) :
                       /\ C6_SumTo(n, j - 1) < i
                       /\ i <= C6_SumTo(n, j)
                       /\ symbols[i] = sp[j]
            /\ (sp = <<<<"X">>, <<"Y">>>> /\ n = <<2, 3>>) =>
                   /\ symbols = <<<<"X">>, <<"X">>, <<"Y">>, <<"Y">>, <<"Y">>>>
                   /\ header["natoms"] = 5

\* Species [X, Y] with ion counts [2, 3] built into [X, X, Y, Y, Y]
C6_Witness ==
    /\ pc = "built"
    /\ lines = <<PotcarX, PotcarY, PotcarX, Ions23>>
    /\ result.exc = ""
    /\ header["symbols"] = <<<<"X">>, <<"X">>, <<"Y">>, <<"Y">>, <<"Y">>>>
    /\ header["natoms"] = 5

C7_NoSpeciesLine == \A i \in 1..Len(lines) : ~IsPotcarLine(lines[i])
C7_NoIonsLine == \A i \in 1..Len(lines) : ~IsIonsLine(lines[i])

\* C7: a build from header lines with no "POTCAR:" line or no
\* "ions per type" line raises ParseError and returns no header; with no
\* line of either kind that fails to parse, the error names the missing key
C7_MissingSpeciesOrIonsFails ==
    (pc = "built" /\ (C7_NoSpeciesLine \/ C7_NoIonsLine)) =>
        /\ result.exc = "ParseError"
        /\ header = NoHeader
        /\ C7_NoIonsLine /\ (\A i \in 1..Len(lines) : lines[i] # PotcarQ) =>
               result.val = "Did not find required key ion_types"
        /\ ~C7_NoIonsLine =>
               result.val = "Did not find required key species"

\* A header with species lines and a spin line but no ion counts, and one
\* with ion counts but no species, have each failed to build
C7_Witness ==
    /\ pc = "built"
    /\ \/ /\ lines = <<PotcarX, PotcarX, IspinLine>>
          /\ result = Raise("ParseError", "Did not find required key ion_types")
       \/ /\ lines = <<Ions1, IspinLine>>
          /\ result = Raise("ParseError", "Did not find required key species")
    /\ header = NoHeader

\* C8: get_species returns the first ceil(n/2) entries of the n accumulated
\* species, in order: [X, Y, X, Y] gives [X, Y] and [X, Y, X] gives [X, Y];
\* the call leaves the accumulated list as it was
C8_FirstHalfRoundedUp ==
    /\ [](pc = "queried" =>
            /\ result.exc = ""
            /\ Len(result.val) * 2 \in {Len(species), Len(species) + 1}
            /\ \A i \in 1..Len(result.val) : result.val[i] = species[i]
            /\ species = <<<<"X">>, <<"Y">>, <<"X">>, <<"Y">>>> =>
                   result.val = <<<<"X">>, <<"Y">>>>
            /\ species = <<<<"X">>, <<"Y">>, <<"X">>>> =>
                   result.val = <<<<"X">>, <<"Y">>>>)
    /\ [][pc' = "queried" => species' = species]_vars

\* The odd-length accumulation [X, Y, X] was asked for its species
C8_Witness ==
    /\ pc = "queried"
    /\ species = <<<<"X">>, <<"Y">>, <<"X">>>>
    /\ result.val = <<<<"X">>, <<"Y">>>>

---------------------------------------------------------------------------
(* The chunk builder on its own: one OutcarChunkParser with the default   *)
(* parsers, given a header and the lines of a chunk                        *)

\* The largest number of blocks before the energy block of a chunk
MaxBlocks == 3

CellBlock == <<CellLine, CellRow, CellRow, CellRow>>
PositionBlock1 == <<PositionLine, RuleLine, PositionRow>>
PositionBlock2 == <<PositionLine, RuleLine, PositionRow, PositionRow>>
EnergyBlock ==
    <<[d |-> OUTCAR_SCF_DELIM, parts |-> ScfLine.parts], RuleLine, FreeEnergyLine,
      TextLine, EnergyZeroLine>>

Blocks ==
    {CellBlock, PositionBlock1, PositionBlock2, <<StressLine6>>, <<StressLine5>>,
     <<StressLineBad>>, <<EFermiLine>>, <<TextLine>>}

RECURSIVE Flatten(_)
Flatten(bs) == IF bs = <<>> THEN <<>> ELSE Head(bs) \o Flatten(Tail(bs))

\* A chunk as build_chunk returns it: blocks, then the energy block
ChunkInputs == {Flatten(bs) \o EnergyBlock : bs \in SeqsUpTo(Blocks, MaxBlocks)}

\* Headers as the header builder returns them, for one atom and for two
ChunkHeaders ==
    { OutcarHeaderParser_build(default_header_parsers, h, <<>>).val :
        h \in { <<PotcarX, PotcarX, Ions1, IterationLine>>,
                <<PotcarX, PotcarX, Ions2, IterationLine>> } }

InitChunk ==
    /\ lines \in ChunkInputs
    /\ header \in ChunkHeaders
    /\ pc = "ready"
    /\ result = Return(None)
    /\ warnings = 0
    /\ species = <<>>
    /\ fd = <<>>
    /\ pos = 0
    /\ yielded = <<>>
    /\ outcome = Return("none")
    /\ stress = <<>>
    /\ raw = <<>>
    /\ callers = <<>>
    /\ instances = <<>>
    /\ registry = DefaultRegistry
    /\ dict_INCAR = EmptyDict
    /\ dict_Analysis = EmptyDict

\* The caller keeps what build returned or raised (b)
ChunkBuilt(b) ==
    /\ result' = [exc |-> b.exc, val |-> b.val]
    /\ warnings' = warnings + b.warned

\* OUTCARChunk(lines, header).build()
ChunkBuild ==
    /\ pc = "ready"
    /\ ChunkBuilt(OutcarChunkParser_build(default_chunk_parsers, header, lines))
    /\ pc' = "built"
    /\ UNCHANGED <<fd, pos, header, yielded, outcome, species, lines, stress, raw, callers, instances, registry, dict_INCAR,
                   dict_Analysis>>

NextChunkBuild == ChunkBuild

SpecChunk == InitChunk /\ [][NextChunkBuild]_vars

---------------------------------------------------------------------------
(* Claims about the chunk builder *)

C5_NoCellLine ==
    \A i \in 1..Len(lines) : ~Contains("direct lattice vectors", lines[i])
C5_NoPositionsLine ==
    \A i \in 1..Len(lines) : ~Contains("POSITION          ", lines[i])

\* What the chunk's lines parse into, before the Record is put together
C5_Parsed == ChunkParser_parse(default_chunk_parsers, header, lines, 1, EmptyDict, 0)

\* C5: a build from a chunk with no cell line, or with no positions line,
\* raises and gives no Record; when the lines of the chunk parse, the error
\* is the ParseError that names the missing property
C5_MissingCellOrPositionsFails ==
    (pc = "built" /\ (C5_NoCellLine \/ C5_NoPositionsLine)) =>
        /\ result.exc # ""
        /\ C5_Parsed.exc = "" =>
               result = Raise("ParseError",
                              IF C5_NoPositionsLine
                              THEN "Did not find required property positions during parse."
                              ELSE "Did not find required property cell during parse.")

\* A chunk with positions, a stress and the energies, but no cell, has
\* failed to build
C5_Witness ==
    /\ pc = "built"
    /\ C5_NoCellLine
    /\ ~C5_NoPositionsLine
    /\ \E i \in 1..Len(lines) : lines[i] = StressLine6
    /\ C5_Parsed.exc = ""
    /\ {"positions", "stress", "free_energy"} \subseteq DOMAIN C5_Parsed.val
    /\ result = Raise("ParseError", "Did not find required property cell during parse.")

\* The stress lines of the chunk whose fields are all numbers
C10_NumericStressLines ==
    {i \in 1..Len(lines) :
        /\ Contains("in kB ", lines[i])
        /\ MapNumber(SliceFrom(lines[i].parts, 2)).exc = ""}

\* C10: a chunk with a cell, the positions of every atom and a stress line of
\* five numbers builds into a Record without a stress, with a warning
C10_ShortStressIsAbsentWithWarning ==
    (/\ pc = "built"
     /\ \E bs \in SeqsUpTo({<<TextLine>>, <<EFermiLine>>}, 1) :
            lines = CellBlock \o PositionBlock1 \o <<StressLine5>> \o Flatten(bs)
                        \o EnergyBlock
     /\ header["natoms"] = 1
     /\ C10_NumericStressLines # {}) =>
        /\ result.exc = ""
        /\ "stress" \notin DOMAIN result.val.results
        /\ warnings >= 1

---------------------------------------------------------------------------
(* The stress conversion on its own *)

\* The largest absolute value of a stress component
MaxStress == 1

StressInputs ==
    [1..6 -> (0 - MaxStress)..MaxStress] \cup [1..5 -> (0 - MaxStress)..MaxStress]
        \cup {<<1, 2, 3, 4, 5, 6>>}

InitStress ==
    /\ stress \in StressInputs
    /\ raw = <<>>
    /\ callers = <<>>
    /\ instances = <<>>
    /\ registry = DefaultRegistry
    /\ dict_INCAR = EmptyDict
    /\ dict_Analysis = EmptyDict
    /\ pc = "ready"
    /\ result = Return(None)
    /\ lines = <<>>
    /\ header = NoHeader
    /\ warnings = 0
    /\ species = <<>>
    /\ fd = <<>>
    /\ pos = 0
    /\ yielded = <<>>
    /\ outcome = Return("none")

\* convert_vasp_outcar_stress(stress)
Convert ==
    /\ pc = "ready"
    /\ result' = convert_vasp_outcar_stress(stress)
    /\ pc' = "converted"
    /\ UNCHANGED <<fd, pos, header, yielded, outcome, species, lines, warnings,
                   stress, raw, callers, instances, registry, dict_INCAR,
                   dict_Analysis>>

NextStress == Convert

SpecStress == InitStress /\ [][NextStress]_vars

---------------------------------------------------------------------------
(* Claims about the stress conversion *)

\* The index map [0, 1, 2, 4, 5, 3], counting from 0 as the claim does
C9_p == [i \in 0..5 |-> IF i < 3 THEN i ELSE IF i = 5 THEN 3 ELSE i + 1]

\* C9: for a stress s of 6 components, the i-th component of the result is
\* -s[p[i]] times the unit factor, with p = [0, 1, 2, 4, 5, 3]; before
\* scaling, [1, 2, 3, 4, 5, 6] becomes [-1, -2, -3, -5, -6, -4]
C9_StressNegatedReorderedScaled ==
    (pc = "converted" /\ Len(stress) = 6) =>
        /\ result.exc = ""
        /\ Len(result.val) = 6
        /\ \A i \in 0..5 : result.val[i + 1] = (0 - stress[C9_p[i] + 1]) * STRESS_UNIT
        /\ stress = <<1, 2, 3, 4, 5, 6>> =>
               result.val = [i \in 1..6 |->
                                <<0 - 1, 0 - 2, 0 - 3, 0 - 5, 0 - 6, 0 - 4>>[i] * STRESS_UNIT]

\* [1, 2, 3, 4, 5, 6] has been converted
C9_Witness ==
    /\ pc = "converted"
    /\ stress = <<1, 2, 3, 4, 5, 6>>
    /\ result.exc = ""
    /\ result.val[4] = (0 - 5) * STRESS_UNIT

---------------------------------------------------------------------------
(* The numeric repair on its own *)

\* The longest text given to the repair
MaxText == 5

\* Two digits, the sign and the space
TextChars == {"1", "2", "-", " "}

InitRepair ==
    /\ raw \in SeqsUpTo(TextChars, MaxText)
    /\ callers = <<>>
    /\ instances = <<>>
    /\ registry = DefaultRegistry
    /\ dict_INCAR = EmptyDict
    /\ dict_Analysis = EmptyDict
    /\ pc = "ready"
    /\ result = Return(None)
    /\ stress = <<>>
    /\ lines = <<>>
    /\ header = NoHeader
    /\ warnings = 0
    /\ species = <<>>
    /\ fd = <<>>
    /\ pos = 0
    /\ yielded = <<>>
    /\ outcome = Return("none")

\* _check_line(line)
Repair ==
    /\ pc = "ready"
    /\ result' = Return(_check_line(raw))
    /\ pc' = "repaired"
    /\ UNCHANGED <<fd, pos, header, yielded, outcome, species, lines, warnings,
                   stress, raw, callers, instances, registry, dict_INCAR,
                   dict_Analysis>>

NextRepair == Repair

SpecRepair == InitRepair /\ [][NextRepair]_vars

---------------------------------------------------------------------------
(* Claims about the numeric repair *)

\* The positions of the text that hold a '-' with a decimal digit immediately
\* before it and immediately after it
C11_SignsBetweenDigits ==
    {i \in 2..(Len(raw) - 1) :
        raw[i] = "-" /\ raw[i - 1] \in Digits /\ raw[i + 1] \in Digits}

\* The text with one space inserted before each of these signs
RECURSIVE C11_Spaced(_)
C11_Spaced(i) ==
    IF i > Len(raw) THEN <<>>
    ELSE (IF i \in C11_SignsBetweenDigits THEN <<" ", raw[i]>> ELSE <<raw[i]>>)
             \o C11_Spaced(i + 1)

\* C11: the repair returns the text with one space inserted before every
\* '-' that stands between two decimal digits and nothing else changed, so
\* the repaired text has no digit-'-'-digit adjacency, and a text with no
\* such adjacency is returned unchanged
C11_RepairSpacesEverySignBetweenDigits ==
    pc = "repaired" =>
        /\ result.val = C11_Spaced(1)
        /\ \A i \in 2..(Len(result.val) - 1) :
               ~(/\ result.val[i] = "-"
                 /\ result.val[i - 1] \in Digits
                 /\ result.val[i + 1] \in Digits)
        /\ C11_SignsBetweenDigits = {} => result.val = raw

---------------------------------------------------------------------------
(* The k-point extractor on its own: Kpoints.parse at the line of a chunk  *)
(* that Kpoints.has_property recognizes                                    *)

\* The largest number of k-points and of bands of a header
MaxKpts == 2
MaxBands == 3

\* The decimal digit d as a character
DigitChar(d) == CHOOSE c \in Digits : DigitVal(c) = d

\* The number v, 100 <= v <= 999, as a token
NumToken(v) == <<DigitChar(v \div 100), DigitChar((v \div 10) % 10), DigitChar(v % 10)>>

\* The eigenvalue written on the line of band n (from 1) of k-point k (from
\* 0) in spin channel s (from 0): every band line holds a value of its own
BandEnergy(s, k, n) == 100 * (s + 1) + 10 * (k + 1) + n

\* " spin component 1"
SpinLine(s) ==
    [d |-> IF s = 0 THEN "spin component 1" ELSE "spin component 2",
     parts |-> <<<<"s", "p", "i", "n">>,
                 <<"c", "o", "m", "p", "o", "n", "e", "n", "t">>,
                 <<DigitChar(s + 1)>>>>]

\* " k-point     1 :       0    0    0"
KpointLine(k) ==
    [d |-> "",
     parts |-> <<<<"k", "-", "p", "o", "i", "n", "t">>, <<DigitChar(k + 1)>>, <<":">>,
                 <<"0">>, <<"0">>, <<"0">>>>]

\* "      1      -9.9948      1.00000": band number, eigenvalue, occupation
BandLine(s, k, n, filled) ==
    [d |-> "",
     parts |-> <<<<DigitChar(n)>>, NumToken(BandEnergy(s, k, n)),
                 IF n <= filled THEN <<"1">> ELSE <<"0">>>>]

\* The lines of one spin channel: the spin-component line, a line, then for
\* each k-point its line, a line, one line per band and a line; one more
\* line ends the channel
KptsBlockLen(nk, nb) == nk * (nb + 3) + 3

\* The line at offset o (from 0) of the k-point block of a chunk
KptsLineAt(o, nk, nb, filled, filler) ==
    LET s == o \div KptsBlockLen(nk, nb)
        r == o % KptsBlockLen(nk, nb)
        k == (r - 2) \div (nb + 3)
        t == (r - 2) % (nb + 3)
    IN  IF r = 0 THEN SpinLine(s)
        ELSE IF r < 2 \/ r >= 2 + nk * (nb + 3) THEN filler
        ELSE IF t = 0 THEN KpointLine(k)
        ELSE IF t = 1 \/ t = nb + 2 THEN filler
        ELSE BandLine(s, k, t - 1, filled)

\* pre lines, then the k-point block of ns spin channels
KptsLayout(pre, ns, nk, nb, filled, filler) ==
    [i \in 1..(pre + ns * KptsBlockLen(nk, nb)) |->
        IF i <= pre THEN filler ELSE KptsLineAt(i - pre - 1, nk, nb, filled, filler)]

\* The header of a run with nk k-points (of weights 1..nk) and nb bands
KptsHeader(nk, nb, spinpol) ==
    [symbols |-> <<<<"X">>>>, natoms |-> 1, constraint |-> None,
     nkpts |-> nk, nbands |-> nb, kpt_weights |-> [k \in 1..nk |-> k],
     ibzkpts |-> [k \in 1..nk |-> <<0, 0, 0>>], spinpol |-> spinpol]

InitKpts ==
    /\ \E nk \in 1..MaxKpts, nb \in 1..MaxBands, spinpol \in BOOLEAN, pre \in 0..1 :
         \E filled \in 0..nb, filler \in {TextLine, RuleLine} :
            /\ header = KptsHeader(nk, nb, spinpol)
            /\ lines = KptsLayout(pre, IF spinpol THEN 2 ELSE 1, nk, nb, filled, filler)
    /\ pc = "ready"
    /\ result = Return(None)
    /\ warnings = 0
    /\ species = <<>>
    /\ fd = <<>>
    /\ pos = 0
    /\ yielded = <<>>
    /\ outcome = Return("none")
    /\ stress = <<>>
    /\ raw = <<>>
    /\ callers = <<>>
    /\ instances = <<>>
    /\ registry = DefaultRegistry
    /\ dict_INCAR = EmptyDict
    /\ dict_Analysis = EmptyDict

\* The caller keeps what parse returned or raised (r)
KpointsParsed(r) ==
    /\ result' = [exc |-> r.exc, val |-> r.val]
    /\ warnings' = warnings + r.warned

\* if parser.has_property(cursor, lines): prop = parser.parse(cursor, lines)
KpointsParse ==
    /\ pc = "ready"
    /\ \E c \in 1..Len(lines) :
           /\ Kpoints_has_property(c, lines)
           /\ KpointsParsed(Kpoints_parse(c, lines, header))
    /\ pc' = "parsed"
    /\ UNCHANGED <<fd, pos, header, yielded, outcome, species, lines, stress, raw, callers, instances, registry, dict_INCAR,
                   dict_Analysis>>

NextKpts == KpointsParse

SpecKpts == InitKpts /\ [][NextKpts]_vars

---------------------------------------------------------------------------
(* Claims about the k-point extractor *)

C12_nspins == IF header["spinpol"] THEN 2 ELSE 1

\* C12: from a block laid out by the documented offsets, with nkpts >= 1
\* and nbands >= 1, the extractor returns nspins * nkpts entries ordered by
\* spin channel, then by k-point; each holds the eigenvalues and the
\* occupations of its nbands band lines, in band order.  With nkpts = 1,
\* nbands = 3 and no spin polarization the one entry holds the three values
\* of the three band lines.
C12_KpointsFollowTheOffsets ==
    pc = "parsed" =>
        /\ result.exc = ""
        /\ Len(result.val.kpts) = C12_nspins * header["nkpts"]
        /\ \A s \in 0..(C12_nspins - 1), k \in 0..(header["nkpts"] - 1) :
               LET kpt == result.val.kpts[s * header["nkpts"] + k + 1] IN
               /\ kpt.s = s
               /\ kpt.k = k
               /\ kpt.weight = header["kpt_weights"][k + 1]
               /\ Len(kpt.eps_n) = header["nbands"]
               /\ Len(kpt.f_n) = header["nbands"]
               /\ \A n \in 1..header["nbands"] :
                      \E i \in 1..Len(lines) :
                          /\ lines[i] \notin {TextLine, RuleLine}
                          /\ lines[i].parts[1] = <<DigitChar(n)>>
                          /\ lines[i].parts[2] = NumToken(BandEnergy(s, k, n))
                          /\ kpt.eps_n[n] = BandEnergy(s, k, n)
                          /\ kpt.f_n[n] = DigitVal(lines[i].parts[3][1])
        /\ (header["nkpts"] = 1 /\ header["nbands"] = 3 /\ ~header["spinpol"]) =>
               /\ Len(result.val.kpts) = 1
               /\ result.val.kpts[1].eps_n = <<111, 112, 113>>

\* Two spin channels of two k-points of two bands each have been extracted
C12_Witness ==
    /\ pc = "parsed"
    /\ header["spinpol"] /\ header["nkpts"] = 2 /\ header["nbands"] = 2
    /\ result.exc = ""
    /\ Len(result.val.kpts) = 4
    /\ result.val.kpts[4].eps_n = <<221, 222>>
    /\ result.val.kpts[4].f_n = <<1, 0>>

---------------------------------------------------------------------------
(* The species extractor on its own: one SpeciesTypes instance, called at  *)
(* the species lines of a header one after the other                       *)

\* The largest number of species lines
MaxPotcars == 2

POTCAR_TOKEN == <<"P", "O", "T", "C", "A", "R", ":">>
PAW_PBE == <<"P", "A", "W", "_", "P", "B", "E">>
POTCAR_DATE == <<"0", "2", "A", "u", "g">>

\* " POTCAR:    PAW_PBE <name> 02Aug"
PotcarLine(name) ==
    [d |-> "POTCAR:", parts |-> <<POTCAR_TOKEN, PAW_PBE, name, POTCAR_DATE>>]

\* " POTCAR:    H  1/r potential": an all-electron potential
PotcarAE == [d |-> "POTCAR:", parts |-> <<POTCAR_TOKEN, <<"H">>, AE_1, AE_2>>]

\* " POTCAR:    PAW_PBE": a species line cut short
PotcarShort == [d |-> "POTCAR:", parts |-> <<POTCAR_TOKEN, PAW_PBE>>]

PotcarLines ==
    {PotcarLine(<<"X">>), PotcarLine(<<"Q">>), PotcarLine(<<"F", "e", "_", "p", "v">>),
     PotcarLine(<<"H", "1", ".", "2", "5">>), PotcarLine(<<"_", "X">>),
     PotcarLine(<<"N", "1", "i", "_", "H">>), PotcarAE, PotcarShort}

InitSpecies ==
    /\ lines \in SeqsUpTo(PotcarLines, MaxPotcars)
    /\ pos = 0
    /\ species = <<>>
    /\ pc = "ready"
    /\ result = Return(None)
    /\ header = NoHeader
    /\ warnings = 0
    /\ fd = <<>>
    /\ yielded = <<>>
    /\ outcome = Return("none")
    /\ stress = <<>>
    /\ raw = <<>>
    /\ callers = <<>>
    /\ instances = <<>>
    /\ registry = DefaultRegistry
    /\ dict_INCAR = EmptyDict
    /\ dict_Analysis = EmptyDict

\* The caller keeps what parse returned or raised (r); the instance keeps
\* its accumulated list
SpeciesParsed(r) ==
    /\ result' = [exc |-> r.exc, val |-> r.val]
    /\ species' = r.species

\* if parser.has_property(cursor, lines): prop = parser.parse(cursor, lines),
\* at the next line (pos counts the lines done)
SpeciesParse ==
    /\ pc = "ready"
    /\ pos < Len(lines)
    /\ Header_has_property("SpeciesTypes", pos + 1, lines)
    /\ SpeciesParsed(SpeciesTypes_parse(pos + 1, lines, species))
    /\ pos' = pos + 1
    /\ UNCHANGED <<fd, pc, header, yielded, outcome, lines, warnings, stress, raw, callers, instances, registry, dict_INCAR,
                   dict_Analysis>>

NextSpecies == SpeciesParse

SpecSpecies == InitSpecies /\ [][NextSpecies]_vars

---------------------------------------------------------------------------
(* Claims about the species extractor *)

\* The field of a species line that names the element: the 2nd when the
\* line contains '1/r potential', the 3rd otherwise
C13_Field(line) ==
    IF \E i \in 1..(Len(line.parts) - 1) :
           line.parts[i] = <<"1", "/", "r">>
               /\ line.parts[i + 1] = <<"p", "o", "t", "e", "n", "t", "i", "a", "l">>
    THEN 2 ELSE 3

\* The letters of the part of a token before its first '_'
C13_Normal(tok) ==
    LET cut == IF \E i \in 1..Len(tok) : tok[i] = "_"
               THEN CHOOSE i \in 1..Len(tok) :
                        tok[i] = "_" /\ \A j \in 1..(i - 1) : tok[j] # "_"
               ELSE Len(tok) + 1
        kept == {i \in 1..(cut - 1) : tok[i] \in Letters}
        Rank(i) == Cardinality({j \in kept : j <= i})
    IN  [r \in 1..Cardinality(kept) |-> tok[CHOOSE i \in kept : Rank(i) = r]]

\* The step that parses the species line at pos + 1, which has the field
C13_Step ==
    /\ pos' = pos + 1
    /\ Len(lines[pos + 1].parts) >= C13_Field(lines[pos + 1])

\* C13: on a species line the extractor takes the 2nd field when the line
\* contains '1/r potential' and the 3rd otherwise, keeps the letters of the
\* part before the first '_', and appends the result to its accumulated
\* list when it is an element symbol; when it is not, it raises ParseError
\* and the accumulated list stays as it was.  Fe_pv is read as Fe, H1.25 as
\* H, and the all-electron line names H.
C13_SpeciesTokenNormalized ==
    [][C13_Step =>
          LET line == lines[pos + 1]
              sym == C13_Normal(line.parts[C13_Field(line)])
          IN  /\ sym \in atomic_numbers =>
                     /\ result'.exc = ""
                     /\ species' = Append(species, sym)
              /\ sym \notin atomic_numbers =>
                     /\ result'.exc = "ParseError"
                     /\ species' = species
              /\ line = PotcarLine(<<"F", "e", "_", "p", "v">>) =>
                     species' = Append(species, <<"F", "e">>)
              /\ line = PotcarLine(<<"H", "1", ".", "2", "5">>) =>
                     species' = Append(species, <<"H">>)
              /\ line = PotcarAE => species' = Append(species, <<"H">>)
              /\ line = PotcarLine(<<"Q">>) =>
                     result'.exc = "ParseError" /\ species' = species]_vars

\* Fe_pv was accepted as Fe, and then a line naming no element was rejected
C13_Witness ==
    /\ pos = 2
    /\ lines = <<PotcarLine(<<"F", "e", "_", "p", "v">>), PotcarLine(<<"_", "X">>)>>
    /\ species = <<<<"F", "e">>>>
    /\ result.exc = "ParseError"

---------------------------------------------------------------------------
(* The chunk builder on chunks of valid blocks, with headers that hold all *)
(* fields the chunk property parsers ask for, or lack some                  *)

\* The largest number of blocks of optional fields in a chunk
MaxFields == 2

\* " magnetization (x)", three lines, then one line per atom: "1 0 0 0 2"
MagmomsBlock ==
    <<[d |-> "magnetization (x)",
       parts |-> <<MAGNETIZATION, <<"(", "x", ")">>>>],
      TextLine, RuleLine, RuleLine,
      [d |-> "", parts |-> <<<<"1">>, <<"0">>, <<"0">>, <<"0">>, <<"2">>>>]>>

\* " number of electron  8  magnetization  2"
MagmomLine ==
    [d |-> "number of electron",
     parts |-> <<<<"n", "u", "m", "b", "e", "r">>, <<"o", "f">>,
                 <<"e", "l", "e", "c", "t", "r", "o", "n">>, <<"8">>,
                 MAGNETIZATION, <<"2">>>>]

\* The k-point block of one spin channel, one k-point and one band
KptsBlock == KptsLayout(0, 1, 1, 1, 1, TextLine)

\* The blocks of the optional fields, and a line no parser recognizes
FieldBlocks ==
    {<<StressLine6>>, <<StressLineBad>>, <<EFermiLine>>, MagmomsBlock, <<MagmomLine>>,
     KptsBlock, <<TextLine>>}

\* A chunk: the cell block or not, the positions block or not, blocks of
\* optional fields, the energy block or not
FieldInputs ==
    {cell \o positions \o Flatten(bs) \o energy :
        cell \in {<<>>, CellBlock}, positions \in {<<>>, PositionBlock1},
        bs \in SeqsUpTo(FieldBlocks, MaxFields), energy \in {<<>>, EnergyBlock}}

\* The header of a run of one atom, one k-point and one band
FullHeader == KptsHeader(1, 1, FALSE)

\* FullHeader, FullHeader without one of the fields the chunk property
\* parsers ask for, and the header built from header lines with no k-point
\* and no spin line
FieldHeaders ==
    {FullHeader}
        \cup {DictPop(FullHeader, key) :
                 key \in {"natoms", "nkpts", "nbands", "kpt_weights", "spinpol"}}
        \cup {OutcarHeaderParser_build(default_header_parsers,
                                       <<PotcarX, PotcarX, Ions1, IterationLine>>,
                                       <<>>).val}

InitFields ==
    /\ lines \in FieldInputs
    /\ header \in FieldHeaders
    /\ pc = "ready"
    /\ result = Return(None)
    /\ warnings = 0
    /\ species = <<>>
    /\ fd = <<>>
    /\ pos = 0
    /\ yielded = <<>>
    /\ outcome = Return("none")
    /\ stress = <<>>
    /\ raw = <<>>
    /\ callers = <<>>
    /\ instances = <<>>
    /\ registry = DefaultRegistry
    /\ dict_INCAR = EmptyDict
    /\ dict_Analysis = EmptyDict

SpecFields == InitFields /\ [][NextChunkBuild]_vars

---------------------------------------------------------------------------
(* Claims about header fields and optional fields *)

\* Some line of the chunk is recognized by the named chunk property parser
C14_Recognized(name) ==
    \E c \in 1..Len(lines) : Chunk_has_property(name, c, lines)

\* A parser that asks the header for a field recognizes a line of the chunk
\* and the header lacks the field
C14_MissingHeaderField ==
    \/ /\ "natoms" \notin DOMAIN header
       /\ C14_Recognized("PositionsAndForces") \/ C14_Recognized("Magmoms")
    \/ /\ {"nkpts", "nbands", "kpt_weights", "spinpol"} \ (DOMAIN header) # {}
       /\ C14_Recognized("Kpoints")

\* C14: when a line of the chunk is recognized by a parser that asks the
\* header for a field (natoms for positions/forces and for the per-atom
\* magnetic moments; nkpts, nbands, kpt_weights and spinpol for the
\* k-points) and the header lacks the field, the build raises ParseError
\* and gives no Record
C14_MissingHeaderFieldFails ==
    (pc = "built" /\ C14_MissingHeaderField) =>
        result = Raise("ParseError", "Parser requested unavailable key from header")

\* A chunk with a cell, positions and a k-point block has failed to build
\* with a header that has all fields but kpt_weights
C14_Witness ==
    /\ pc = "built"
    /\ header = DictPop(FullHeader, "kpt_weights")
    /\ lines = CellBlock \o PositionBlock1 \o KptsBlock \o EnergyBlock
    /\ result = Raise("ParseError", "Parser requested unavailable key from header")

\* The field of the calculator is absent from the built Atoms object
C15_Absent(field) ==
    CASE field = "efermi" -> result.val.efermi = None
      [] field = "kpts" -> result.val.kpts = None
      [] OTHER -> field \notin DOMAIN result.val.results

\* The optional fields and the chunk property parser that gives each
C15_Optional ==
    {<<"stress", "Stress">>, <<"efermi", "EFermi">>, <<"energy", "Energy">>,
     <<"free_energy", "Energy">>, <<"magmom", "Magmom">>, <<"magmoms", "Magmoms">>,
     <<"kpts", "Kpoints">>}

\* C15: in every chunk that builds into an Atoms object, each optional field
\* (stress, Fermi energy, energy and free energy, magnetic moment, per-atom
\* magnetic moments, k-points) is absent when no line of the chunk is
\* recognized by its parser; with a header that has all fields, a chunk of
\* well-formed lines builds exactly when it has a cell line and a positions
\* line
C15_OptionalFieldsAbsentWithoutLine ==
    pc = "built" =>
        /\ result.exc = "" =>
               \A f \in C15_Optional : ~C14_Recognized(f[2]) => C15_Absent(f[1])
        /\ header = FullHeader =>
               (result.exc = ""
                    <=> C14_Recognized("Cell") /\ C14_Recognized("PositionsAndForces"))

\* A chunk of a cell block and a positions block alone has built into an
\* Atoms object with no optional field
C15_Witness ==
    /\ pc = "built"
    /\ lines = CellBlock \o PositionBlock1
    /\ result.exc = ""
    /\ \A f \in C15_Optional : C15_Absent(f[1])

---------------------------------------------------------------------------
(* Callers of outcarchunks, each with a stream of its own, that take turns *)
(* at pulling chunks from their generators and at building them             *)

\* The callers
CallerIds == {1, 2}

\* The largest number of chunks in a caller's stream
MaxChunks == 2

\* Chunks: one that builds, and one with no cell line
GoodChunk == CellBlock \o PositionBlock1 \o EnergyBlock
NoCellChunk == PositionBlock1 \o <<EFermiLine>> \o EnergyBlock

\* The header lines of a log: of species X or Y, or ones with no start of an
\* SCF cycle
CallerHeaders ==
    {<<PotcarX, PotcarX, Ions1, IterationLine>>,
     <<PotcarY, PotcarY, Ions1, IterationLine>>,
     <<PotcarX, PotcarX, Ions1>>}
\* The chunks of a log take turns: one that builds, one with no cell line
CallerChunks(n) == Flatten([k \in 1..n |-> IF k % 2 = 1 THEN GoodChunk ELSE NoCellChunk])
\* A log of species X may also start with the chunk with no cell line
CallerStreams ==
    {h \o CallerChunks(n) : h \in CallerHeaders, n \in 0..MaxChunks}
        \cup {<<PotcarX, PotcarX, Ions1, IterationLine>> \o NoCellChunk \o CallerChunks(n) :
                  n \in 1..(MaxChunks - 1)}

\* A parser instance as make_parsers creates it: a SpeciesTypes has an empty
\* species list, a chunk property parser has an empty header
NewInstance == [species |-> <<>>, header |-> NoHeader]

\* A make_parsers that hands out the instances it made at its first call
make_parsers_shared(heap) == 1

\* DefaultParsersContainer.make_parsers: new instances at every call; the
\* value is the place of the new instances among all instances made
make_parsers(heap) == Len(heap) + 1

\* The instances after make_parsers has returned the ones at place at
WithInstance(heap, at) == IF at > Len(heap) THEN Append(heap, NewInstance) ELSE heap

\* A chunk that carries an empty header
OUTCARChunk_noheader(ls, hdr, parser) ==
    [lines |-> ls, header |-> NoHeader, parser |-> parser]

\* OUTCARChunk.__init__
OUTCARChunk(ls, hdr, parser) == [lines |-> ls, header |-> hdr, parser |-> parser]

\* outcarchunks called with a stream: a generator that has not started
NewCaller(f) ==
    [fd |-> f, pos |-> 0, pc |-> "created", header |-> NoHeader, yielded |-> <<>>,
     outcome |-> Return("none"), built |-> <<>>, pulls |-> 0, chunk_parser |-> 0]

\* The generator raises: its caller's next() gives the exception
CallerRaised(st, heap, p, e) ==
    [caller |-> [st EXCEPT !.pc = "raised", !.pos = p, !.pulls = st.pulls + 1,
                           !.outcome = Raise(e.exc, e.val)],
     heap |-> heap]

\* The while loop of outcarchunks after lines = build_chunk(fd), c its value
CallerYield(st, heap, c) ==
    IF c.exc = "StopIteration"
    THEN [caller |-> [st EXCEPT !.pc = "returned", !.pos = c.pos,
                                !.pulls = st.pulls + 1,
                                !.outcome = Raise("StopIteration", "")],
          heap |-> heap]
    ELSE [caller |-> [st EXCEPT !.pc = "suspended", !.pos = c.pos,
                                !.pulls = st.pulls + 1,
                                !.outcome = Return("chunk"),
                                !.yielded = Append(st.yielded,
                                    OUTCARChunk(c.val, st.header, st.chunk_parser))],
          heap |-> heap]

\* outcarchunks after header = header_parser.build(lines), b its value, hp
\* the header parser's instances and p the stream position: the chunk
\* parser is made, then the loop is entered
CallerAfterHeaderBuild(st, heap, hp, b, p) ==
    IF b.exc # ""
    THEN CallerRaised(st, [heap EXCEPT ![hp].species = b.species], p, b)
    ELSE CallerYield(
             [st EXCEPT !.header = b.val,
                        !.chunk_parser =
                            make_parsers([heap EXCEPT ![hp].species = b.species])],
             WithInstance([heap EXCEPT ![hp].species = b.species],
                          make_parsers([heap EXCEPT ![hp].species = b.species])),
             build_chunk(st.fd, p))

\* outcarchunks after lines = build_header(fd), h its value
CallerAfterBuildHeader(st, heap, hp, h) ==
    IF h.exc # "" THEN CallerRaised(st, heap, h.pos, h)
    ELSE CallerAfterHeaderBuild(
             st, heap, hp,
             OutcarHeaderParser_build(default_header_parsers, h.val, heap[hp].species),
             h.pos)

\* next() on a generator of outcarchunks: from its start to its first yield,
\* or from a yield to the next one
CallerPull(st, heap) ==
    IF st.pc = "created"
    THEN CallerAfterBuildHeader(st, WithInstance(heap, make_parsers(heap)),
                                make_parsers(heap), build_header(st.fd, st.pos))
    ELSE CallerYield(st, heap, build_chunk(st.fd, st.pos))

\* An OUTCARChunk.build whose failure closes the generator the chunk came from
CallerBuilt_closing(st, heap, r) ==
    [caller |-> [st EXCEPT !.built = Append(st.built, [exc |-> r.exc, val |-> r.val]),
                           !.pc = IF r.exc # "" THEN "returned" ELSE st.pc],
     heap |-> heap]

\* OUTCARChunk.build after self.parser.header = self.header, r the value of
\* self.parser.build(self.lines)
CallerBuilt(st, heap, r) ==
    [caller |-> [st EXCEPT !.built = Append(st.built, [exc |-> r.exc, val |-> r.val])],
     heap |-> heap]

\* OUTCARChunk.build of a caller's next chunk not built yet
CallerBuild(st, heap) ==
    CallerBuilt(
        st,
        [heap EXCEPT ![st.yielded[Len(st.built) + 1].parser].header =
                         st.yielded[Len(st.built) + 1].header],
        OutcarChunkParser_build(default_chunk_parsers,
                                st.yielded[Len(st.built) + 1].header,
                                st.yielded[Len(st.built) + 1].lines))

InitCallers ==
    /\ callers \in [CallerIds -> {NewCaller(f) : f \in CallerStreams}]
    /\ instances = <<>>
    /\ registry = DefaultRegistry
    /\ dict_INCAR = EmptyDict
    /\ dict_Analysis = EmptyDict
    /\ fd = <<>>
    /\ pos = 0
    /\ pc = "callers"
    /\ header = NoHeader
    /\ yielded = <<>>
    /\ outcome = Return("none")
    /\ species = <<>>
    /\ lines = <<>>
    /\ result = Return(None)
    /\ warnings = 0
    /\ stress = <<>>
    /\ raw = <<>>

\* A step of caller i has led to the caller and the instances of r
CallerStepped(i, r) ==
    /\ callers' = [callers EXCEPT ![i] = r.caller]
    /\ instances' = r.heap
    /\ UNCHANGED <<fd, pos, pc, header, yielded, outcome, species, lines, result,
                   warnings, stress, raw, registry, dict_INCAR,
                   dict_Analysis>>

\* Caller i calls next() on its generator
Pull(i) ==
    /\ callers[i].pc \in {"created", "suspended"}
    /\ CallerStepped(i, CallerPull(callers[i], instances))

\* Caller i builds the next of its chunks
Build(i) ==
    /\ Len(callers[i].built) < Len(callers[i].yielded)
    /\ CallerStepped(i, CallerBuild(callers[i], instances))

NextCallers == \E i \in CallerIds : Pull(i) \/ Build(i)

SpecCallers == InitCallers /\ [][NextCallers]_vars

---------------------------------------------------------------------------
(* Claims about the header of a run and about independent callers *)

\* The header built from the header lines of a stream
C16_HeaderOf(f) ==
    OutcarHeaderParser_build(default_header_parsers, build_header(f, 0).val, <<>>).val

\* Every chunk a caller was handed carries the caller's header, and the
\* header of a generator past its first yield is the one built from the
\* header lines of its stream
C16_SameHeader ==
    \A i \in CallerIds :
        /\ \A j \in 1..Len(callers[i].yielded) :
               callers[i].yielded[j].header = callers[i].header
        /\ callers[i].yielded # <<>> => callers[i].header = C16_HeaderOf(callers[i].fd)

\* A step of any caller leaves the header of every generator past its first
\* yield, and the chunks handed out so far, as they were
C16_HeaderKept ==
    \A i \in CallerIds :
        callers[i].yielded # <<>> =>
            /\ callers'[i].header = callers[i].header
            /\ SubSeq(callers'[i].yielded, 1, Len(callers[i].yielded))
                   = callers[i].yielded

\* C16: all chunks yielded by one run of outcarchunks carry the same header,
\* the one built once from the run's header lines before the first chunk is
\* yielded; yielding a chunk and building a chunk, whether the build succeeds
\* or fails, leave the contents of that header as they were
C16_OneHeaderPerRun == []C16_SameHeader /\ [][C16_HeaderKept]_vars

\* A caller was handed two chunks and has built both, the first into an
\* Atoms object and the second into an error
C16_Witness ==
    \E i \in CallerIds :
        /\ Len(callers[i].yielded) = 2
        /\ Len(callers[i].built) = 2
        /\ callers[i].built[1].exc = ""
        /\ callers[i].built[2].exc # ""
        /\ callers[i].yielded[2].header = callers[i].header

---------------------------------------------------------------------------
(* A header built from header lines, then a chunk built with that header *)

\* The largest number of atom rows in the positions block of a chunk
MaxRows == 5

\* The positions block with n atom rows
PositionBlockOf(n) == <<PositionLine, RuleLine>> \o [i \in 1..n |-> PositionRow]

\* Header lines: species X with 1 or 2 ions, species X and Y with 2 and 3
\* ions, two species with one ion count, and species with no ion counts
RecordHeaderLines ==
    {<<PotcarX, PotcarX, Ions1, IterationLine>>,
     <<PotcarX, PotcarX, Ions2, IterationLine>>,
     <<PotcarX, PotcarY, PotcarX, PotcarY, Ions23, IterationLine>>,
     <<PotcarX, PotcarY, PotcarX, PotcarY, Ions1, IterationLine>>,
     <<PotcarX, PotcarX, IterationLine>>}

\* Chunks: the cell block or not, a positions block of 0 to MaxRows atom
\* rows, an optional field or not, the energy block
RecordChunks ==
    {cell \o PositionBlockOf(n) \o opt \o EnergyBlock :
        cell \in {<<>>, CellBlock}, n \in 0..MaxRows,
        opt \in {<<>>, <<StressLine6>>, <<EFermiLine>>}}

InitRecord ==
    /\ fd \in RecordHeaderLines
    /\ lines \in RecordChunks
    /\ pc = "created"
    /\ header = NoHeader
    /\ result = Return(None)
    /\ warnings = 0
    /\ species = <<>>
    /\ pos = 0
    /\ yielded = <<>>
    /\ outcome = Return("none")
    /\ stress = <<>>
    /\ raw = <<>>
    /\ callers = <<>>
    /\ instances = <<>>
    /\ registry = DefaultRegistry
    /\ dict_INCAR = EmptyDict
    /\ dict_Analysis = EmptyDict

\* header = header_parser.build(lines) with a new OutcarHeaderParser
RecordHeaderBuild ==
    /\ pc = "created"
    /\ HeaderBuilt(OutcarHeaderParser_build(default_header_parsers, fd, <<>>))
    /\ pc' = IF result'.exc = "" THEN "ready" ELSE "raised"
    /\ UNCHANGED <<fd, pos, yielded, outcome, lines, warnings, stress, raw, callers, instances, registry, dict_INCAR,
                   dict_Analysis>>

NextRecord == RecordHeaderBuild \/ ChunkBuild

SpecRecord == InitRecord /\ [][NextRecord]_vars

---------------------------------------------------------------------------
(* Claims about the atoms of a built chunk *)

\* The ion counts written on the last "ions per type" line of the header
\* lines
C17_IonCounts ==
    LET ions == SelectSeq(fd, IsIonsLine) IN
    IF ions = <<>> THEN <<>>
    ELSE CASE ions[Len(ions)] = Ions23 -> <<2, 3>>
           [] ions[Len(ions)] = Ions2 -> <<2>>
           [] OTHER -> <<1>>

\* C17: in every Atoms object built from a chunk and a header that the
\* header parser built, the number of positions is the number of forces, the
\* header's number of atoms, and the sum of the ion counts per species the
\* header was built from
C17_AtomCountsAgree ==
    (pc = "built" /\ result.exc = "") =>
        /\ Len(result.val.positions) = Len(result.val.results["forces"])
        /\ Len(result.val.positions) = header["natoms"]
        /\ header["natoms"] = C6_SumTo(C17_IonCounts, Len(C17_IonCounts))
        /\ Len(result.val.symbols) = header["natoms"]

\* A chunk with more atom rows than atoms has built, with a header of two
\* species with 2 and 3 ions, into an Atoms object of 5 positions
C17_Witness ==
    /\ pc = "built"
    /\ result.exc = ""
    /\ C17_IonCounts = <<2, 3>>
    /\ Len(result.val.positions) = 5
    /\ Len(result.val.results["forces"]) = 5

---------------------------------------------------------------------------
(* Claims about the lengths of the species list and the ion counts *)

\* Every "POTCAR:" line of the header lines names an element
C18_SpeciesLinesValid == \A i \in 1..Len(lines) : lines[i] # PotcarQ

\* C18: a header that builds was derived from a de-duplicated species list
\* and a list of ion counts of the same length; when the two lengths differ,
\* as after an odd number of species lines, the build raises ParseError and
\* returns no header
C18_SpeciesAndIonCountsAgree ==
    pc = "built" =>
        /\ result.exc = "" => Len(C6_Species) = Len(C6_Counts)
        /\ Len(C6_Species) # Len(C6_Counts) =>
               /\ result.exc = "ParseError"
               /\ header = NoHeader
               /\ (C18_SpeciesLinesValid /\ ~C7_NoSpeciesLine /\ ~C7_NoIonsLine) =>
                      result.val = "Expected length of ion_types to be same as species"

\* Three species lines, of which the first two are kept, with one ion count
\* have failed to build
C18_Witness ==
    /\ pc = "built"
    /\ lines = <<PotcarX, PotcarY, PotcarX, Ions1>>
    /\ Len(C6_Species) = 2
    /\ Len(C6_Counts) = 1
    /\ result = Raise("ParseError", "Expected length of ion_types to be same as species")

---------------------------------------------------------------------------
(* Claims about a stress line that does not parse *)

\* The stress lines of the chunk
C19_StressLines == {i \in 1..Len(lines) : Contains("in kB ", lines[i])}

\* The last stress line of the chunk, the one whose value is kept, has a
\* token that is not a number
C19_BadStressToken ==
    /\ C19_StressLines # {}
    /\ LET last == CHOOSE i \in C19_StressLines : \A j \in C19_StressLines : j <= i
       IN  \E k \in 3..Len(lines[last].parts) :
               ParseNumber(lines[last].parts[k]).exc # ""

\* C19: when a token of the stress line of a chunk is not a number, the
\* stress is absent from the result, a warning is given and no error is
\* raised for it: with a cell line and a positions line (and a header that
\* has all fields) the chunk builds into an Atoms object, which has the
\* Fermi energy and the energies of the lines of the chunk
C19_BadStressIsAbsentWithWarning ==
    (pc = "built" /\ C19_BadStressToken) =>
        /\ result.exc \in {"", "ParseError"}
        /\ (header = FullHeader /\ C14_Recognized("Cell")
                /\ C14_Recognized("PositionsAndForces")) =>
               /\ result.exc = ""
               /\ "stress" \notin DOMAIN result.val.results
               /\ warnings >= 1
               /\ C14_Recognized("EFermi") => result.val.efermi # None
               /\ C14_Recognized("Energy") =>
                      {"energy", "free_energy"} \subseteq DOMAIN result.val.results
               /\ C14_Recognized("Magmoms") => "magmoms" \in DOMAIN result.val.results

\* A chunk with a cell, positions, a stress line with the token "**", a
\* Fermi energy and the energies has built into an Atoms object without a
\* stress, with one warning
C19_Witness ==
    /\ pc = "built"
    /\ lines = CellBlock \o PositionBlock1 \o <<StressLineBad>> \o <<EFermiLine>>
                   \o EnergyBlock
    /\ header = FullHeader
    /\ result.exc = ""
    /\ "stress" \notin DOMAIN result.val.results
    /\ result.val.efermi = Some(3)
    /\ warnings = 1

---------------------------------------------------------------------------
(* Claims about independent callers *)

\* A caller that parses the log f alone, after n calls of next()
RECURSIVE C20_AlonePulls(_, _)
C20_AlonePulls(f, n) ==
    IF n = 0 THEN [caller |-> NewCaller(f), heap |-> <<>>]
    ELSE CallerPull(C20_AlonePulls(f, n - 1).caller, C20_AlonePulls(f, n - 1).heap)

\* The caller and the instances of alone, after n more builds
RECURSIVE C20_AloneBuilds(_, _)
C20_AloneBuilds(alone, n) ==
    IF n = 0 THEN alone
    ELSE CallerBuild(C20_AloneBuilds(alone, n - 1).caller,
                     C20_AloneBuilds(alone, n - 1).heap)

\* What a caller has seen: where its generator stands, what its last next()
\* gave, the header, the chunks with their headers, and what the builds
\* returned or raised
C20_Seen(st) ==
    [pc |-> st.pc, pos |-> st.pos, outcome |-> st.outcome, header |-> st.header,
     yielded |-> [j \in 1..Len(st.yielded) |->
                     [lines |-> st.yielded[j].lines, header |-> st.yielded[j].header]],
     built |-> st.built]

\* C20: two callers that parse a log each, with a stream and parser
\* instances of their own, have each seen, after any interleaving of their
\* calls of next() and of build(), what they see when they parse their log
\* alone: the same header, chunks, Atoms objects and errors
C20_CallersSeeWhatTheySeeAlone ==
    \A i \in DOMAIN callers :
        C20_Seen(callers[i])
            = C20_Seen(C20_AloneBuilds(C20_AlonePulls(callers[i].fd, callers[i].pulls),
                                       Len(callers[i].built)).caller)

\* Both callers are in the middle of their logs, of species X and of species
\* Y: each has built a chunk and each generator is suspended with lines left
C20_Witness ==
    /\ DOMAIN callers = CallerIds
    /\ \A i \in CallerIds :
           /\ callers[i].pc = "suspended"
           /\ callers[i].pos < Len(callers[i].fd)
           /\ Len(callers[i].built) = 1
           /\ callers[i].built[1].exc = ""
    /\ callers[1].header["symbols"] = <<<<"X">>>>
    /\ callers[2].header["symbols"] = <<<<"Y">>>>
    /\ callers[1].chunk_parser > callers[2].chunk_parser

---------------------------------------------------------------------------
(* The default registries and the parsers constructed from them *)

\* The largest number of header parsers and chunk parsers constructed
MaxParsers == 2

\* The names added to and removed from a registry, and the sequences of
\* property parsers a caller supplies to a constructor (None: no argument)
RegistryNames == [header |-> {"Spinpol"}, chunk |-> {"Stress", "Custom"}]
SuppliedParsers ==
    [header |-> {None, Some(<<>>), Some(<<"Spinpol">>)},
     chunk |-> {None, Some(<<>>), Some(<<"Stress">>)}]

\* DefaultParsersContainer.add_parser: parsers_dct[name] = parser; a name
\* the dict holds keeps its place
add_parser(names, name) ==
    IF \E i \in 1..Len(names) : names[i] = name THEN names ELSE Append(names, name)

\* DefaultParsersContainer.remove_parser: parsers_dct.pop(name)
remove_parser(names, name) ==
    IF \E i \in 1..Len(names) : names[i] = name
    THEN Return(SelectSeq(names, LAMBDA n : n # name))
    ELSE Raise("KeyError", names)

\* parsers = parsers or default_parsers.make_parsers(), in the constructors
\* of OutcarChunkParser and of OutcarHeaderParser
ParsersOrDefault(supplied, names) ==
    IF supplied = None \/ supplied = Some(<<>>) THEN names ELSE supplied[1]

\* A parser that looks its property parsers up in the registry at every use
ParsersOf_live(inst, reg) ==
    IF inst.supplied = None THEN reg[inst.kind] ELSE inst.parsers

\* TypeParser.parsers: the property parsers of a parser instance
ParsersOf(inst, reg) == inst.parsers

InitRegistry ==
    /\ registry = DefaultRegistry
    /\ dict_INCAR = EmptyDict
    /\ dict_Analysis = EmptyDict
    /\ instances = <<>>
    /\ pc = "loaded"
    /\ result = Return(None)
    /\ fd = <<>>
    /\ pos = 0
    /\ header = NoHeader
    /\ yielded = <<>>
    /\ outcome = Return("none")
    /\ species = <<>>
    /\ lines = <<>>
    /\ warnings = 0
    /\ stress = <<>>
    /\ raw = <<>>
    /\ callers = <<>>

\* default_header_parsers.add_parser(cls) or default_chunk_parsers.add_parser(cls)
AddParser(kind, name) ==
    /\ registry' = [registry EXCEPT ![kind] = add_parser(registry[kind], name)]
    /\ result' = Return(None)
    /\ UNCHANGED <<fd, pos, pc, header, yielded, outcome, species, lines, warnings,
                   stress, raw, callers, instances, dict_INCAR,
                   dict_Analysis>>

\* The registry after remove_parser has returned or raised r
Removed(kind, r) ==
    /\ registry' = [registry EXCEPT ![kind] = r.val]
    /\ result' = IF r.exc = "" THEN Return(None) ELSE Raise(r.exc, "")

\* default_header_parsers.remove_parser(name) or
\* default_chunk_parsers.remove_parser(name)
RemoveParser(kind, name) ==
    /\ Removed(kind, remove_parser(registry[kind], name))
    /\ UNCHANGED <<fd, pos, pc, header, yielded, outcome, species, lines, warnings,
                   stress, raw, callers, instances, dict_INCAR,
                   dict_Analysis>>

\* OutcarHeaderParser(parsers=supplied) or OutcarChunkParser(parsers=supplied)
Construct(kind, supplied) ==
    /\ Len(instances) < MaxParsers
    /\ instances' = Append(instances,
                           [kind |-> kind, supplied |-> supplied,
                            parsers |-> ParsersOrDefault(supplied, registry[kind])])
    /\ UNCHANGED <<fd, pos, pc, header, yielded, outcome, species, lines, result,
                   warnings, stress, raw, callers, registry, dict_INCAR,
                   dict_Analysis>>

NextRegistry ==
    \E kind \in {"header", "chunk"} :
        \/ \E name \in RegistryNames[kind] : AddParser(kind, name)
        \/ \E name \in RegistryNames[kind] : RemoveParser(kind, name)
        \/ \E supplied \in SuppliedParsers[kind] : Construct(kind, supplied)

SpecRegistry == InitRegistry /\ [][NextRegistry]_vars

---------------------------------------------------------------------------
(* Claims about the registries *)

\* A step leaves the property parsers of every parser constructed before it
\* as they were
C21_ParsersKept ==
    \A i \in 1..Len(instances) :
        ParsersOf(instances'[i], registry') = ParsersOf(instances[i], registry)

\* A parser constructed in a step with no parsers supplied has the parsers
\* the registry holds at that step, and the step leaves the registry as it
\* was, whatever was supplied
C21_ConstructedFromRegistry ==
    Len(instances') > Len(instances) =>
        /\ registry' = registry
        /\ instances'[Len(instances')].supplied = None =>
               ParsersOf(instances'[Len(instances')], registry')
                   = registry[instances'[Len(instances')].kind]

\* C21: the property parsers of a parser instance are fixed when it is
\* constructed: adding a parser to or removing one from a default registry
\* afterwards changes only the parsers of instances constructed later, and
\* constructing an instance with parsers of its own leaves the registries
\* unchanged
C21_ParsersFixedAtConstruction ==
    [][C21_ParsersKept /\ C21_ConstructedFromRegistry]_vars

\* A chunk parser was constructed from the default registry, Stress was then
\* removed from the registry, and a second chunk parser was constructed: the
\* first has Stress, the second has not
C21_Witness ==
    /\ Len(instances) = 2
    /\ instances[1].kind = "chunk" /\ instances[1].supplied = None
    /\ instances[2].kind = "chunk" /\ instances[2].supplied = None
    /\ ParsersOf(instances[1], registry) = default_chunk_parsers
    /\ ParsersOf(instances[2], registry)
           = SelectSeq(default_chunk_parsers, LAMBDA n : n # "Stress")
    /\ registry["chunk"] = ParsersOf(instances[2], registry)

---------------------------------------------------------------------------
(* Claims about the lines of the stream that the header and the chunks take *)

\* The header the header parser builds from lines 1..HeaderEnd of the stream
C22_HeaderOfPrefix ==
    OutcarHeaderParser_build(default_header_parsers, SubSeq(fd, 1, HeaderEnd), <<>>).val

\* The chunks handed out so far, end to end, are the lines of the stream
\* that follow the first line with the header marker
C22_ChunksAreContiguous ==
    yielded # <<>> =>
        /\ HeaderEnd > 0
        /\ header = C22_HeaderOfPrefix
        /\ HeaderEnd + Len(Flatten(YieldedLines)) <= Len(fd)
        /\ Flatten(YieldedLines)
               = SubSeq(fd, HeaderEnd + 1, HeaderEnd + Len(Flatten(YieldedLines)))

\* A step never moves the stream backwards, and the chunk it yields is the
\* lines from the one after the header's last line (at the first pull) or
\* after the previous chunk's last line (at a later pull) to the last line
\* read
C22_ChunkFollowsPrevious ==
    /\ pos' >= pos
    /\ Len(yielded') > Len(yielded) =>
           /\ pos' > pos
           /\ yielded'[Len(yielded')].lines
                  = SubSeq(fd, (IF pc = "created" THEN HeaderEnd ELSE pos) + 1, pos')
           /\ SubSeq(yielded', 1, Len(yielded)) = yielded

\* C22: the header lines and the yielded chunks partition a prefix of the
\* stream with no gap and no overlap: the header is lines 1 to the first
\* line with the header marker, the first chunk starts at the next line,
\* every later chunk starts at the line after the previous chunk's last
\* line, and no line is read twice or is in two chunks
C22_HeaderAndChunksPartitionPrefix ==
    []C22_ChunksAreContiguous /\ [][C22_ChunkFollowsPrevious]_vars

\* Two chunks were yielded from a stream whose header ends at line 4: the
\* first starts at line 5, the second where the first ended
C22_Witness ==
    /\ HeaderEnd = 4
    /\ Len(yielded) = 2
    /\ yielded[1].lines = SubSeq(fd, 5, 4 + Len(yielded[1].lines))
    /\ yielded[2].lines = SubSeq(fd, 5 + Len(yielded[1].lines), pos)
    /\ yielded[1].lines # yielded[2].lines

---------------------------------------------------------------------------
(* Header lines and chunks in which a field is written more than once *)

\* The largest number of header lines after the species lines, and of
\* stress and Fermi energy lines in a chunk
MaxMerge == 2

\* "  in kB   6  5  4  3  2  1"
StressLine6b ==
    [d |-> "in kB ",
     parts |-> <<<<"i", "n">>, <<"k", "B">>, <<"6">>, <<"5">>, <<"4">>, <<"3">>,
                 <<"2">>, <<"1">>>>]

\* " E-fermi :   4     XC(G=0):  -1     alpha+bet : -2"
EFermiLine4 ==
    [d |-> "E-fermi :",
     parts |-> <<<<"E", "-", "f", "e", "r", "m", "i">>, <<":">>, <<"4">>, <<"X", "C">>>>]

MergeHeaderLines ==
    {<<PotcarX, PotcarX>> \o hs \o <<IterationLine>> :
        hs \in SeqsUpTo({PotcarY, Ions1, Ions2, IspinLine}, MaxMerge)}

MergeChunks ==
    {CellBlock \o PositionBlock1 \o bs \o EnergyBlock :
        bs \in SeqsUpTo({StressLine6, StressLine6b, StressLineBad, EFermiLine,
                         EFermiLine4}, MaxMerge)}

InitMerge ==
    /\ fd \in MergeHeaderLines
    /\ lines \in MergeChunks
    /\ pc = "created"
    /\ header = NoHeader
    /\ result = Return(None)
    /\ warnings = 0
    /\ species = <<>>
    /\ pos = 0
    /\ yielded = <<>>
    /\ outcome = Return("none")
    /\ stress = <<>>
    /\ raw = <<>>
    /\ callers = <<>>
    /\ instances = <<>>
    /\ registry = DefaultRegistry
    /\ dict_INCAR = EmptyDict
    /\ dict_Analysis = EmptyDict

SpecMerge == InitMerge /\ [][NextRecord]_vars

---------------------------------------------------------------------------
(* Claims about a field that is extracted at more than one line *)

\* The last of the lines ls that the parser recognizes, 0 when there is none
C23_LastHeaderLine(name, ls) ==
    LET M == {c \in 1..Len(ls) : Header_has_property(name, c, ls)} IN
    IF M = {} THEN 0 ELSE CHOOSE c \in M : \A d \in M : d <= c
C23_LastChunkLine(name, ls) ==
    LET M == {c \in 1..Len(ls) : Chunk_has_property(name, c, ls)} IN
    IF M = {} THEN 0 ELSE CHOOSE c \in M : \A d \in M : d <= c

\* The species names on the species lines of ls, in the order of the lines
C23_SpeciesNames(ls) ==
    LET potcars == SelectSeq(ls, IsPotcarLine) IN
    [i \in 1..Len(potcars) |-> potcars[i].parts[3]]

\* The properties parsed from the header lines are, field by field, what
\* the parser of the field extracts at the last line it recognizes
C23_HeaderMerged(parsed) ==
    parsed.exc = "" =>
        /\ \A name \in {"IonsPerSpecies", "Spinpol"} :
               C23_LastHeaderLine(name, fd) > 0 =>
                   LET last == Header_parse(name, C23_LastHeaderLine(name, fd), fd, <<>>).val
                   IN  \A f \in DOMAIN last : parsed.val[f] = last[f]
        /\ parsed.val["species"] = get_species(C23_SpeciesNames(fd))

\* The properties parsed from the chunk are, field by field, what the
\* parser of the field extracts at the last line it recognizes
C23_ChunkMerged(parsed) ==
    parsed.exc = "" =>
        \A k \in 1..Len(default_chunk_parsers) :
            C23_LastChunkLine(default_chunk_parsers[k], lines) > 0 =>
                LET last == Chunk_parse(default_chunk_parsers[k],
                                        C23_LastChunkLine(default_chunk_parsers[k], lines),
                                        lines, header).val
                IN  \A f \in DOMAIN last : parsed.val[f] = last[f]

\* The built Atoms object has the stress of the last stress line, none when
\* that line does not parse, and the Fermi energy of the last such line
C23_RecordHasLast ==
    result.exc = "" =>
        /\ C23_LastChunkLine("Stress", lines) > 0 =>
               LET last == Stress_parse(C23_LastChunkLine("Stress", lines), lines,
                                        header).val["stress"]
               IN  IF last = None THEN "stress" \notin DOMAIN result.val.results
                   ELSE result.val.results["stress"] = last
        /\ C23_LastChunkLine("EFermi", lines) > 0 =>
               result.val.efermi
                   = Some(EFermi_parse(C23_LastChunkLine("EFermi", lines), lines,
                                       header).val["efermi"])

\* C23: in the header build and in the chunk build the lines are visited in
\* order and every parser is asked at every line, so the merged value of a
\* field is the one extracted at the last line at which its parser matched:
\* an earlier value is overwritten, also by a later None
C23_LastMatchWins ==
    /\ pc # "created" =>
           C23_HeaderMerged(HeaderParser_parse(default_header_parsers, fd, 1, 1,
                                               EmptyDict, <<>>))
    /\ pc = "built" =>
           /\ C23_ChunkMerged(ChunkParser_parse(default_chunk_parsers, header, lines, 1,
                                                EmptyDict, 0))
           /\ C23_RecordHasLast

\* A header with ion counts 2 and then 1 has built with one atom, and a
\* chunk with a stress line that parses and then one that does not has built
\* into an Atoms object with no stress
C23_Witness ==
    /\ pc = "built"
    /\ fd = <<PotcarX, PotcarX, Ions2, Ions1, IterationLine>>
    /\ header["natoms"] = 1
    /\ lines = CellBlock \o PositionBlock1 \o <<StressLine6, StressLineBad>> \o EnergyBlock
    /\ result.exc = ""
    /\ "stress" \notin DOMAIN result.val.results

---------------------------------------------------------------------------
(* A header and a chunk in which two neighbouring numbers of a line are
   written without the space between them *)

\* The largest number of places of one line where two numbers run together
MaxFused == 2

\* "  in kB   1  -2  3  -4  5  -6"
StressLineNeg ==
    [d |-> "in kB ",
     parts |-> <<<<"i", "n">>, <<"k", "B">>, <<"1">>, <<"-", "2">>, <<"3">>,
                 <<"-", "4">>, <<"5">>, <<"-", "6">>>>]

\* The magnetization block of one atom with moments 0 -1 0 and total -2
MagmomsBlockNeg ==
    [MagmomsBlock EXCEPT ![5] =
        [d |-> "", parts |-> <<<<"1">>, <<"0">>, <<"-", "1">>, <<"0">>, <<"-", "2">>>>]]

\* The k-point block of one k-point "k-point 1 : 0 -1 0" and one band line
\* "1 -9 -1"
KptsBlockNeg ==
    [KptsBlock EXCEPT
        ![3] = [d |-> "",
                parts |-> <<<<"k", "-", "p", "o", "i", "n", "t">>, <<"1">>, <<":">>,
                            <<"0">>, <<"-", "1">>, <<"0">>>>],
        ![5] = [d |-> "", parts |-> <<<<"1">>, <<"-", "9">>, <<"-", "1">>>>]]

\* "   ISPIN  =      1    spin polarized calculation?"
Ispin1Line ==
    [d |-> "ISPIN", parts |-> <<<<"I", "S", "P", "I", "N">>, <<"=">>, <<"1">>, <<"s", "p", "i", "n">>>>]

\* "   k-points   NKPTS =   1   NBANDS=   1", the heading of the k-point
\* table and its row "0 -1 0 1"
NkptsLine ==
    [d |-> "NKPTS",
     parts |-> <<<<"k", "-", "p", "o", "i", "n", "t", "s">>, <<"N", "K", "P", "T", "S">>,
                 <<"=">>, <<"1">>, <<"N", "B", "A", "N", "D", "S", "=">>, <<"1">>>>]
KpointTableLine ==
    [d |-> KPTS_DELIM2, parts |-> <<<<"k", "-", "p", "o", "i", "n", "t", "s">>>>]
KpointTableRow ==
    [d |-> "", parts |-> <<<<"0">>, <<"-", "1">>, <<"0">>, <<"1">>>>]

\* The places j of a line where the token j is a number and the token j + 1
\* is a negative number
FusablePairs(parts) ==
    {j \in 1..(Len(parts) - 1) :
        /\ ParseNumber(parts[j]).exc = ""
        /\ parts[j + 1][1] = "-"
        /\ ParseNumber(parts[j + 1]).exc = ""}

\* The tokens from j on, with the tokens j and j + 1 written as one token
\* for every j in S
RECURSIVE FuseFrom(_, _, _)
FuseFrom(parts, S, j) ==
    IF j > Len(parts) THEN <<>>
    ELSE IF j \in S THEN <<parts[j] \o parts[j + 1]>> \o FuseFrom(parts, S, j + 2)
    ELSE <<parts[j]>> \o FuseFrom(parts, S, j + 1)

\* Up to MaxFused places of a line, no two of them neighbours
FusedPlaces(parts) ==
    {S \in SUBSET FusablePairs(parts) :
        S # {} /\ Cardinality(S) <= MaxFused /\ \A j \in S : j + 1 \notin S}

\* The lines ls, and ls with numbers run together on one of its lines
Fusings(ls) ==
    {ls} \cup UNION {{[ls EXCEPT ![i].parts = FuseFrom(@, S, 1)] :
                          S \in FusedPlaces(ls[i].parts)} : i \in 1..Len(ls)}

FusedHeaderLines ==
    Fusings(<<PotcarX, PotcarX, Ions1, Ispin1Line, NkptsLine, KpointTableLine,
              KpointTableRow, IterationLine>>)

FusedChunks ==
    UNION {Fusings(CellBlock \o PositionBlock1 \o bs \o EnergyBlock) :
               bs \in {<<StressLineNeg>>, MagmomsBlockNeg, KptsBlockNeg}}

InitFused ==
    /\ fd \in FusedHeaderLines
    /\ lines \in FusedChunks
    /\ pc = "created"
    /\ header = NoHeader
    /\ result = Return(None)
    /\ warnings = 0
    /\ species = <<>>
    /\ pos = 0
    /\ yielded = <<>>
    /\ outcome = Return("none")
    /\ stress = <<>>
    /\ raw = <<>>
    /\ callers = <<>>
    /\ instances = <<>>
    /\ registry = DefaultRegistry
    /\ dict_INCAR = EmptyDict
    /\ dict_Analysis = EmptyDict

SpecFused == InitFused /\ [][NextRecord]_vars

---------------------------------------------------------------------------
(* Claims about the lines that are repaired before they are tokenized *)

\* The lines ls, each of them repaired and tokenized again
C24_Repaired(ls) ==
    [i \in 1..Len(ls) |-> [d |-> ls[i].d, parts |-> get_line_parts(i, ls)]]

C24_Same(b, r) == r.exc = b.exc /\ r.val = b.val

\* C24: every line from which a parser reads numbers is repaired before it
\* is tokenized (cell, positions and forces, stress, Fermi energy, energies,
\* magnetic moments, k-point lines and band lines, ion counts, the k-point
\* header), so a header and a chunk build to what their repaired lines build
\* to
C24_NumericLinesAreRepaired ==
    /\ pc \in {"ready", "raised"} =>
           C24_Same(OutcarHeaderParser_build(default_header_parsers,
                                             C24_Repaired(fd), <<>>), result)
    /\ pc = "built" =>
           C24_Same(OutcarChunkParser_build(default_chunk_parsers, header,
                                            C24_Repaired(lines)), result)

---------------------------------------------------------------------------
(* Chunks with a line that holds 'number of electron' and the token NELECT *)

\* " number of electron  8  magnetization  2" with the token NELECT put in
\* after the first p tokens (inside the words 'number of electron' it breaks
\* them up); " NELECT = 8 total number of electrons" of an OUTCAR file has it
\* first
NelectLine(p) ==
    [d |-> IF p \in {1, 2} THEN "" ELSE "number of electron",
     parts |-> SubSeq(MagmomLine.parts, 1, p) \o <<NELECT>>
                   \o SubSeq(MagmomLine.parts, p + 1, Len(MagmomLine.parts))]

NelectLines == {MagmomLine} \cup {NelectLine(p) : p \in 0..Len(MagmomLine.parts)}

NelectChunks ==
    {cell \o positions \o <<l>> \o opt \o energy :
        cell \in {<<>>, CellBlock}, positions \in {<<>>, PositionBlock1},
        l \in NelectLines, opt \in {<<>>, <<StressLine6>>},
        energy \in {<<>>, EnergyBlock}}

InitNelect ==
    /\ lines \in NelectChunks
    /\ header = FullHeader
    /\ pc = "ready"
    /\ result = Return(None)
    /\ warnings = 0
    /\ species = <<>>
    /\ fd = <<>>
    /\ pos = 0
    /\ yielded = <<>>
    /\ outcome = Return("none")
    /\ stress = <<>>
    /\ raw = <<>>
    /\ callers = <<>>
    /\ instances = <<>>
    /\ registry = DefaultRegistry
    /\ dict_INCAR = EmptyDict
    /\ dict_Analysis = EmptyDict

SpecNelect == InitNelect /\ [][NextChunkBuild]_vars

---------------------------------------------------------------------------
(* Claims about the line of the scalar magnetic moment *)

C25_HasNelect(line) == \E j \in 1..Len(line.parts) : line.parts[j] = NELECT

\* The chunk with a line no parser recognizes in the place of every line
\* that holds the token NELECT
C25_WithoutNelectLines ==
    [i \in 1..Len(lines) |-> IF C25_HasNelect(lines[i]) THEN TextLine ELSE lines[i]]

\* C25: the parser of the scalar magnetic moment recognizes no line that
\* holds the token NELECT, wherever the token stands in the line, so the
\* chunk builds to what it builds to with a plain line in the place of every
\* such line
C25_NelectLineIsNeverRecognized ==
    pc = "built" =>
        /\ \A c \in 1..Len(lines) :
               C25_HasNelect(lines[c]) => ~Magmom_has_property(c, lines)
        /\ C24_Same(OutcarChunkParser_build(default_chunk_parsers, header,
                                            C25_WithoutNelectLines), result)

---------------------------------------------------------------------------
(* One OutcarHeaderParser instance that builds the header of a first log    *)
(* (fd) and is then used again, or replaced by a new instance, to build    *)
(* the header of a second log (lines)                                      *)

\* The longest list of header lines of the second log
MaxRebuild == 3

FirstHeaderLines ==
    {<<PotcarX, PotcarX, Ions1>>, <<PotcarY, PotcarY, Ions2>>,
     <<PotcarX, PotcarY, PotcarX, PotcarY, Ions23>>, <<Ions1>>}

InitRebuild ==
    /\ fd \in FirstHeaderLines
    /\ lines \in SeqsUpTo({PotcarX, PotcarY, Ions1}, MaxRebuild)
    /\ pc = "created"
    /\ species = <<>>
    /\ result = Return(None)
    /\ header = NoHeader
    /\ pos = 0
    /\ yielded = <<>>
    /\ outcome = Return("none")
    /\ warnings = 0
    /\ stress = <<>>
    /\ raw = <<>>
    /\ callers = <<>>
    /\ instances = <<>>
    /\ registry = DefaultRegistry
    /\ dict_INCAR = EmptyDict
    /\ dict_Analysis = EmptyDict

\* header_parser.build(lines) for the first log
FirstHeaderBuild ==
    /\ pc = "created"
    /\ HeaderBuilt(OutcarHeaderParser_build(default_header_parsers, fd, species))
    /\ pc' = "ready"
    /\ UNCHANGED <<fd, pos, yielded, outcome, lines, warnings, stress, raw, callers, instances, registry, dict_INCAR,
                   dict_Analysis>>

\* header_parser = OutcarHeaderParser(): make_parsers() gives it a new
\* SpeciesTypes, whose __init__ sets _species = []
NewHeaderParser ==
    /\ pc = "ready"
    /\ species # <<>>
    /\ species' = <<>>
    /\ UNCHANGED <<fd, pos, pc, header, yielded, outcome, lines, result, warnings,
                   stress, raw, callers, instances, registry, dict_INCAR,
                   dict_Analysis>>

NextRebuild == FirstHeaderBuild \/ NewHeaderParser \/ HeaderBuild \/ GetSpecies

SpecRebuild == InitRebuild /\ [][NextRebuild]_vars

---------------------------------------------------------------------------
(* Claims about the species of a header built after another header *)

\* C26: every header build starts from an empty species accumulator: what
\* the build of the second log's header lines gives is what these lines give
\* on their own, whatever was built before, by the same OutcarHeaderParser
\* instance or by another
C26_HeaderBuildStartsEmpty ==
    pc = "built" =>
        C24_Same(OutcarHeaderParser_build(default_header_parsers, lines, <<>>), result)

---------------------------------------------------------------------------
(* Claims about a build that fails *)

\* A step in which caller i builds a chunk and the build raises
C27_BuildFails(i) ==
    /\ Len(callers'[i].built) = Len(callers[i].built) + 1
    /\ callers'[i].built[Len(callers'[i].built)].exc # ""

\* Such a step changes nothing of caller i but the list of its builds, so
\* the stream, the generator, the header and the chunks stay as they are; it
\* changes no other caller and no parser instance, except that the chunk
\* parser of the caller is given the caller's header again
C27_FailedBuildChangesNothing ==
    \A i \in CallerIds :
        C27_BuildFails(i) =>
            /\ callers'[i] = [callers[i] EXCEPT !.built = callers'[i].built]
            /\ \A j \in CallerIds \ {i} : callers'[j] = callers[j]
            /\ Len(instances') = Len(instances)
            /\ \A k \in 1..Len(instances) :
                   /\ instances'[k].species = instances[k].species
                   /\ instances'[k].header # instances[k].header =>
                          /\ k = callers[i].chunk_parser
                          /\ instances'[k].header = callers[i].header

\* What caller i has seen of its generator is what a caller sees that pulls
\* as often and never builds, and every build gave what the chunk gives when
\* it is built on its own, whatever was built before it
C27_SeenAsWithoutBuilds ==
    \A i \in DOMAIN callers :
        /\ [C20_Seen(callers[i]) EXCEPT !.built = <<>>]
               = C20_Seen(C20_AlonePulls(callers[i].fd, callers[i].pulls).caller)
        /\ \A j \in 1..Len(callers[i].built) :
               C24_Same(OutcarChunkParser_build(default_chunk_parsers,
                                                callers[i].yielded[j].header,
                                                callers[i].yielded[j].lines),
                        callers[i].built[j])

\* C27: a build that fails is confined to its chunk: it leaves the stream,
\* the generator, the header and the parsers as they are, and the caller
\* that pulls again gets the chunks, and builds from them the Atoms objects,
\* that it gets when the failed build is not attempted
C27_FailedBuildIsConfinedToChunk ==
    []C27_SeenAsWithoutBuilds /\ [][C27_FailedBuildChangesNothing]_vars

\* A caller whose first build failed has pulled the next chunk and built it
C27_Witness ==
    \E i \in DOMAIN callers :
        /\ callers[i].pulls = 2
        /\ Len(callers[i].yielded) = 2
        /\ Len(callers[i].built) = 2
        /\ callers[i].built[1].exc # ""
        /\ callers[i].built[2].exc = ""

---------------------------------------------------------------------------
(* Claims about how far the stream is read *)

\* Nothing is read, built or yielded before the first call of next()
C28_NothingReadBeforeFirstPull ==
    pc = "created" => pos = 0 /\ yielded = <<>> /\ header = NoHeader

\* While the generator is suspended at a yield, the lines read are the
\* header lines and the lines of the chunks yielded so far
C28_ReadUpToLastYieldedChunk ==
    pc = "suspended" =>
        /\ yielded # <<>>
        /\ pos = HeaderEnd + Len(Flatten(YieldedLines))
        /\ SubSeq(fd, 1, pos) = SubSeq(fd, 1, HeaderEnd) \o Flatten(YieldedLines)

\* C28: the chunks are produced lazily, with no read-ahead: nothing is read
\* from the stream before the first pull, and when the k-th chunk is handed
\* to the caller the lines read from the stream are the header lines and the
\* lines of the chunks 1 to k, the lines after them being left in the stream
C28_LazyWithNoReadAhead ==
    C28_NothingReadBeforeFirstPull /\ C28_ReadUpToLastYieldedChunk

\* The first chunk has been handed out and a complete second chunk is still
\* unread in the stream
C28_Witness ==
    /\ pc = "suspended"
    /\ Len(yielded) = 1
    /\ pos < Len(fd)
    /\ ChunkEnd(pos) > 0

---------------------------------------------------------------------------
(* Claims about the parsers supplied to a constructor *)

\* C29: a header parser or chunk parser constructed with a sequence of
\* property parsers applies the parsers of that sequence and no others,
\* whatever the sequence, the empty one included; the default registry is
\* used only when no sequence is supplied
C29_SuppliedParsersAreApplied ==
    \A i \in 1..Len(instances) :
        instances[i].supplied # None =>
            ParsersOf(instances[i], registry) = instances[i].supplied[1]

---------------------------------------------------------------------------
(* incar.py: the INCAR dictionary is set up from the defaults and the      *)
(* configured settings, then passed through the check functions in the    *)
(* order of the main program                                               *)

\* The values of the dictionaries: integers, strings, booleans, and floats
\* by their decimal text
PyInt(n) == <<"int", n>>
PyStr(s) == <<"str", s>>
PyBool(b) == <<"bool", b>>
PyFloat(s) == <<"float", s>>

\* d[key] = val
DictSet(d, key, val) == [k \in (DOMAIN d) \cup {key} |-> IF k = key THEN val ELSE d[k]]

\* d.get(key)
dict_get(d, key) == IF key \in DOMAIN d THEN d[key] ELSE None

\* del d[key]
DictDel(d, key) ==
    IF key \in DOMAIN d THEN Return(DictPop(d, key)) ELSE Raise("KeyError", key)

\* key in d.keys() and d[key] == True
IsTrue(d, key) == key \in DOMAIN d /\ d[key] = PyBool(TRUE)

\* get_VASP_inputs(structure): the default entries
get_VASP_inputs ==
    [SYSTEM |-> PyStr("formula"), ENCUT |-> PyFloat("500."), NELMIN |-> PyInt(6),
     NELM |-> PyInt(1000), NELMDL |-> PyInt(-12), EDIFF |-> PyFloat("1.0E-6"),
     PREC |-> PyStr("NORMAL"), ISPIN |-> PyInt(2), ADDGRID |-> PyStr(".TRUE."),
     IVDW |-> PyInt(0), NSW |-> PyInt(150), EDIFFG |-> PyFloat("-0.025"),
     IBRION |-> PyInt(2), ISIF |-> PyInt(3), POTIM |-> PyFloat("0.010"),
     ISMEAR |-> PyInt(0), SIGMA |-> PyFloat("0.10"), LORBIT |-> PyInt(10),
     NEDOS |-> PyInt(101), NWRITE |-> PyInt(1), LCHARG |-> PyStr(".FALSE."),
     LWAVE |-> PyStr(".FALSE."), LASPH |-> PyStr(".TRUE."), NCORE |-> PyInt(4),
     LPLANE |-> PyStr(".TRUE.")]

\* The number check_IVDW gives the configured correction
IVDWNumber(var_value) ==
    CASE var_value = PyStr("D2") -> 10
      [] var_value = PyStr("D3") -> 11
      [] var_value = PyStr("D3BJ") -> 12
      [] var_value = PyStr("dDsC") -> 4
      [] var_value = PyStr("TSSCS") -> 20
      [] var_value = PyStr("TSHP") -> 21
      [] var_value = PyStr("MBDSC") -> 202
      [] OTHER -> 0

check_IVDW(d) ==
    LET var_value == dict_get(d, "IVDW")
        d1 == IF var_value = PyStr("TSSCS")
              THEN DictUpdate(d, [LSCSGRAD |-> PyStr(".TRUE."), LSCALER0 |-> PyStr(".TRUE.")])
              ELSE d
    IN  IF IVDWNumber(var_value) > 0
        THEN DictUpdate(d1, [IVDW |-> PyInt(IVDWNumber(var_value)),
                             ADDGRID |-> PyStr(".FALSE."), LASPH |-> PyStr(".FALSE.")])
        ELSE DictUpdate(d1, [IVDW |-> PyInt(IVDWNumber(var_value))])

check_vdw_functional(d) ==
    LET var_value == dict_get(d, "GGA") IN
    CASE var_value = PyStr("optPBE-vdw") ->
             DictUpdate(d, [GGA |-> PyStr("OR"), LUSE_VDW |-> PyStr(".TRUE."),
                            AGGAC |-> PyFloat("0.0000"), LASPH |-> PyStr(".TRUE.")])
      [] var_value = PyStr("optB88-vdw") ->
             DictUpdate(d, [GGA |-> PyStr("BO"), PARAM1 |-> PyFloat("0.1833333333"),
                            PARAM2 |-> PyFloat("0.2200000000"),
                            LUSE_VDW |-> PyStr(".TRUE."), AGGAC |-> PyFloat("0.0000"),
                            LASPH |-> PyStr(".TRUE.")])
      [] var_value = PyStr("optB86b-vdw") ->
             DictUpdate(d, [GGA |-> PyStr("MK"), PARAM1 |-> PyFloat("0.1234"),
                            PARAM2 |-> PyFloat("1.0000"), LUSE_VDW |-> PyStr(".TRUE."),
                            AGGAC |-> PyFloat("0.0000"), LASPH |-> PyStr(".TRUE.")])
      [] var_value = PyStr("SCAN+rVV10") ->
             DictPop(DictUpdate(d, [METAGGA |-> PyStr("SCAN"), LUSE_VDW |-> PyStr(".TRUE."),
                                    BPARAM |-> PyFloat("6.3"), CPARAM |-> PyFloat("0.0093"),
                                    LASPH |-> PyStr(".TRUE.")]),
                     "GGA")
      [] OTHER -> check_IVDW(DictSet(d, "GGA", var_value))

check_SOC(d) ==
    DictDel(IF IsTrue(d, "SOC")
            THEN DictUpdate(d, [LASPH |-> PyStr(".TRUE."), LSORBIT |-> PyStr(".TRUE."),
                                GGA_COMPAT |-> PyStr(".TRUE."), SAXIS |-> PyStr("0 0 1"),
                                ISYM |-> PyInt(0)])
            ELSE d,
            "SOC")

\* The entries check_MD sets for a molecular dynamics run; SMASS is set
\* to -3 after both branches
MDEntries(cpmd) ==
    [ISYM |-> PyInt(0), IBRION |-> PyInt(0), ISMEAR |-> PyInt(0), ALGO |-> PyStr("Very Fast"),
     LWAVE |-> PyStr(".FALSE."), LCHARG |-> PyStr(".FALSE."),
     MDALGO |-> IF cpmd["Ensemble"] = PyStr("NVE") THEN PyInt(1) ELSE PyInt(2),
     ISIF |-> PyInt(2), SMASS |-> PyInt(-3), TEBEG |-> cpmd["TEBEG"],
     TEEND |-> cpmd["TEEND"]]

\* del dict_INCAR["MD"]; del dict_INCAR["CPMD"]
DelMD(d) ==
    IF DictDel(d, "MD").exc # "" THEN DictDel(d, "MD")
    ELSE DictDel(DictDel(d, "MD").val, "CPMD")

check_MD(d) ==
    IF IsTrue(d, "MD")
    THEN IF "CPMD" \notin DOMAIN d THEN Raise("KeyError", "CPMD")
         ELSE IF {"Ensemble", "TEBEG", "TEEND"} \subseteq DOMAIN d["CPMD"]
         THEN DelMD(IF d["CPMD"]["Ensemble"] = PyStr("NVE")
                    THEN DictUpdate(DictUpdate(d, MDEntries(d["CPMD"])),
                                    [ANDERSEN_PROB |-> PyFloat("0.0")])
                    ELSE DictUpdate(d, MDEntries(d["CPMD"])))
         ELSE Raise("KeyError", "CPMD")
    ELSE DelMD(d)

check_Bader(a, d) ==
    IF IsTrue(a, "Bader")
    THEN DictUpdate(d, [LCHARG |-> PyStr(".TRUE."), LAECHG |-> PyStr(".TRUE."),
                        LREAL |-> PyStr("AUTO"), NGXF |-> dict_get(a["Mesh"], "NGXF"),
                        NGYF |-> dict_get(a["Mesh"], "NGYF"),
                        NGZF |-> dict_get(a["Mesh"], "NGZF")])
    ELSE d

check_DOS(a, d) ==
    IF IsTrue(a, "DOS")
    THEN DictUpdate(d, [LORBIT |-> dict_get(a["dos_calculation"], "LORBIT"),
                        NEDOS |-> dict_get(a["dos_calculation"], "NEDOS"),
                        NSW |-> dict_get(a["dos_calculation"], "NSW"),
                        PREC |-> dict_get(a["dos_calculation"], "PREC")])
    ELSE d

check_Band_structure(a, d) ==
    IF IsTrue(a, "Band_Structure")
    THEN DictUpdate(d, [IBRION |-> dict_get(a["band"], "IBRION"),
                        ICHARG |-> dict_get(a["band"], "ICHARG"),
                        LORBIT |-> dict_get(a["band"], "LORBIT"),
                        NSW |-> dict_get(a["band"], "NSW"),
                        PREC |-> dict_get(a["band"], "PREC")])
    ELSE d

\* The settings of the INCAR tab of the workflow: the functional, the
\* dispersion correction (or none configured), spin-orbit coupling and
\* molecular dynamics
ConfiguredGGA ==
    {PyStr("PE"), PyStr("optPBE-vdw"), PyStr("optB88-vdw"), PyStr("optB86b-vdw"),
     PyStr("SCAN+rVV10")}
ConfiguredIVDW ==
    {PyStr("None"), PyStr("D2"), PyStr("D3"), PyStr("D3BJ"), PyStr("dDsC"), PyStr("TSSCS"),
     PyStr("TSHP"), PyStr("MBDSC")}
ConfiguredINCAR ==
    {[GGA |-> g, SOC |-> PyBool(soc), MD |-> PyBool(md),
      CPMD |-> [Ensemble |-> PyStr(e), TEBEG |-> PyInt(300), TEEND |-> PyInt(300)]] :
         g \in ConfiguredGGA, soc \in BOOLEAN, md \in BOOLEAN, e \in {"NVE", "NVT"}}
        \cup {[GGA |-> g, IVDW |-> v, SOC |-> PyBool(FALSE), MD |-> PyBool(FALSE),
               CPMD |-> [Ensemble |-> PyStr("NVE"), TEBEG |-> PyInt(300), TEEND |-> PyInt(300)]] :
                 g \in ConfiguredGGA, v \in ConfiguredIVDW}

\* The settings of the Analysis tab
ConfiguredAnalysis ==
    {[Bader |-> PyBool(b), DOS |-> PyBool(dos), Band_Structure |-> PyBool(b),
      Mesh |-> [NGXF |-> PyInt(100), NGYF |-> PyInt(100), NGZF |-> PyInt(100)],
      dos_calculation |-> [LORBIT |-> PyInt(11), NEDOS |-> PyInt(3001), NSW |-> PyInt(0),
                           PREC |-> PyStr("Accurate")],
      band |-> [IBRION |-> PyInt(-1), ICHARG |-> PyInt(11), LORBIT |-> PyInt(11),
                NSW |-> PyInt(0), PREC |-> PyStr("Accurate")]] :
         b \in BOOLEAN, dos \in BOOLEAN}

\* dict_INCAR = get_VASP_inputs(structure), updated with the settings of the
\* INCAR tab; dict_Analysis holds the settings of the Analysis tab
InitIncar ==
    /\ \E w \in ConfiguredINCAR : dict_INCAR = DictUpdate(get_VASP_inputs, w)
    /\ dict_Analysis \in ConfiguredAnalysis
    /\ pc = "configured"
    /\ result = Return(None)
    /\ registry = DefaultRegistry
    /\ instances = <<>>
    /\ callers = <<>>
    /\ fd = <<>>
    /\ pos = 0
    /\ header = NoHeader
    /\ yielded = <<>>
    /\ outcome = Return("none")
    /\ species = <<>>
    /\ lines = <<>>
    /\ warnings = 0
    /\ stress = <<>>
    /\ raw = <<>>

\* dict_INCAR = check(dict_INCAR) has returned or raised r
Checked(r, next) ==
    /\ dict_INCAR' = IF r.exc = "" THEN r.val ELSE dict_INCAR
    /\ result' = IF r.exc = "" THEN Return(None) ELSE r
    /\ pc' = IF r.exc = "" THEN next ELSE "raised"
    /\ UNCHANGED <<fd, pos, header, yielded, outcome, species, lines, warnings, stress,
                   raw, callers, instances, registry, dict_Analysis>>

CheckVdwFunctional ==
    pc = "configured" /\ Checked(Return(check_vdw_functional(dict_INCAR)), "vdw")
CheckSOC == pc = "vdw" /\ Checked(check_SOC(dict_INCAR), "soc")
CheckMD == pc = "soc" /\ Checked(check_MD(dict_INCAR), "md")
CheckBader == pc = "md" /\ Checked(Return(check_Bader(dict_Analysis, dict_INCAR)), "bader")
CheckDOS == pc = "bader" /\ Checked(Return(check_DOS(dict_Analysis, dict_INCAR)), "dos")
CheckBandStructure ==
    pc = "dos" /\ Checked(Return(check_Band_structure(dict_Analysis, dict_INCAR)), "prepared")

NextIncar ==
    CheckVdwFunctional \/ CheckSOC \/ CheckMD \/ CheckBader \/ CheckDOS \/ CheckBandStructure

SpecIncar == InitIncar /\ [][NextIncar]_vars

---------------------------------------------------------------------------
(* Claims about the dispersion correction in the INCAR dictionary *)

C30_IVDWNumbers == {0, 4, 10, 11, 12, 20, 21, 202}

\* C30: after the preparation (check_vdw_functional, check_SOC, check_MD,
\* check_Bader, check_DOS, check_Band_structure) the IVDW entry of the INCAR
\* dictionary is one of the integers 0, 4, 10, 11, 12, 20, 21, 202, whatever
\* functional and correction are configured, and when it is greater than 0
\* the ADDGRID entry is '.FALSE.'
C30_IVDWIsNumberAndGridOff ==
    pc = "prepared" =>
        /\ "IVDW" \in DOMAIN dict_INCAR
        /\ dict_INCAR["IVDW"][1] = "int"
        /\ dict_INCAR["IVDW"][2] \in C30_IVDWNumbers
        /\ dict_INCAR["IVDW"][2] > 0 => dict_INCAR["ADDGRID"] = PyStr(".FALSE.")

=============================================================================
